---- MODULE Spec2Model ----
(***************************************************************************)
(* Verification model of the campaigniq analysis pipeline                  *)
(* (src/Prototype Code): the orchestrator run_analysis, the data           *)
(* preparation and its validator, the rule evaluator and the decile        *)
(* analysis.                                                               *)
(***************************************************************************)
EXTENDS Integers, Sequences, FiniteSets, TLC

VARIABLES
    pc,          \* run_analysis: position in the function body
    inp,         \* run_analysis: the inputs of the call (config, table, collaborators)
    job_id,      \* run_analysis: local job_id ("unset" until line 140 has run)
    cursor,      \* run_analysis: local cursor ("None", "open" or "closed")
    txn,         \* store: contents as seen inside the open transaction
    committed,   \* store: committed contents
    commitLog,   \* store: per commit, the set of things the commit changed
    progress,    \* percentages delivered to progress_callback, in order
    stages,      \* run_analysis: the stages entered so far, in order
    exc,         \* run_analysis: the exception caught at line 343 ("none" if none)
    statusWrite, \* run_analysis: outcome of the FAILED status write of the handler
    result,      \* run_analysis: returned value (NoResult before the return)
    score_pc,    \* apply_scoring_rules: position in the function body
    df,          \* apply_scoring_rules: the dataset being scored
    rules,       \* apply_scoring_rules: the rule set
    rule_idx,    \* apply_scoring_rules: index of the next rule of the loop
    scores,      \* apply_scoring_rules: the scores so far, one per row
    prep_pc,     \* prepare_analysis_data: position in the function body
    raw,         \* prepare_analysis_data: the raw table (argument df)
    config,      \* prepare_analysis_data: the configuration
    df_prep,     \* prepare_analysis_data: the table being prepared
    prep_error,  \* prepare_analysis_data: message of the raised error ("none" if none)
    dec_pc,      \* decile analysis: position in analysis.py:282-300
    regression_scores, \* decile analysis: predicted probability of each row
    y_values,    \* decile analysis: target of each row (y.values)
    deciles,     \* decile analysis: the bin qcut gives each row (k for Dk)
    response_rates, \* decile analysis: the records of the response_rates frame
    dec_error,   \* decile analysis: message of the raised error ("none" if none)
    now,         \* sessions: the wall clock, in seconds
    raw_tables,  \* sessions: per RAW_DATA.UPLOAD_<timestamp> table, the session whose data it holds
    sessions,    \* sessions: per browser session, its position and session state
    job_rows,    \* sessions: the rows of METADATA.JOBS, in insertion order
    artifact_rows, \* sessions: the rows of the RESULTS tables, as (job_id, session, run)
    gen_pc,      \* generate_scoring_rules: position in the function body
    gen_in,      \* generate_scoring_rules: the arguments df, model_coefficients, feature_names, config
    feature_idx, \* generate_scoring_rules: index of the next feature of the loop
    gen_rules,   \* generate_scoring_rules: the local list rules
    gen_error,   \* generate_scoring_rules: name of the raised error ("none" if none)
    upload_pc,   \* validate_data: position in the function body
    upload_in,   \* validate_data: the arguments df and progress_bar
    warehouse,   \* validate_data: the upload's table, pending and committed rows
    conn_calls,  \* validate_data: the calls of conn.commit() and conn.rollback(), in order
    upload_exc,  \* validate_data: where the first exception was raised ("none" if none)
    upload_result, \* validate_data: returned value (NoUpload before the return)
    retry_pc,    \* execute_with_retry: position in the function body
    retry_in,    \* execute_with_retry: the arguments operation and max_retries
    attempt,     \* execute_with_retry: the loop variable
    conn,        \* execute_with_retry: the connection in use (0 is the argument)
    retry_cursor, \* execute_with_retry: the cursor of the attempt ("None", "open", "closed")
    retry_exc,   \* execute_with_retry: the exception in flight ("none" if none)
    retry_calls, \* execute_with_retry: the calls made so far, in order
    retry_result \* execute_with_retry: how the call ended ("none" while running)

runVars == <<pc, inp, job_id, cursor, txn, committed, commitLog, progress,
             stages, exc, statusWrite, result>>

scoreVars == <<score_pc, df, rules, rule_idx, scores>>

prepVars == <<prep_pc, raw, config, df_prep, prep_error>>

decVars == <<dec_pc, regression_scores, y_values, deciles, response_rates, dec_error>>

jobVars == <<now, raw_tables, sessions, job_rows, artifact_rows>>

genVars == <<gen_pc, gen_in, feature_idx, gen_rules, gen_error>>

uploadVars == <<upload_pc, upload_in, warehouse, conn_calls, upload_exc, upload_result>>

retryVars == <<retry_pc, retry_in, attempt, conn, retry_cursor, retry_exc, retry_calls,
               retry_result>>

vars == <<runVars, scoreVars, prepVars, decVars, jobVars, genVars, uploadVars, retryVars>>

----------------------------------------------------------------------------
(* Bounds *)
MaxFeatures == 11
MaxRules == 3
ScoreRows == 4
PrepRows == 3
DecileRows == 12
MaxSessions == 2
MaxRuns == 2
MaxClock == 1
MaxGenFeatures == 2
MaxBatches == 3
MaxRetries == 3

(* Program constants *)
MinRows == 100
CommitEvery == 10
NumDeciles == 10
BaseScore == 1000
ScaleFactor == 1000
CoefUnit == 10000
WeakEffect == 100
MinUploadRows == 100
MinUploadColumns == 2
BatchSize == 1000

----------------------------------------------------------------------------
(* The store: one job id per upload, METADATA.JOBS and the RESULTS tables. *)

JobId == "J1"

ArtifactTables == <<"MODEL_DETAILS", "FEATURE_IMPORTANCE", "SCORING_RULES",
                    "MODEL_METRICS", "RESPONSE_RATES", "SCORED_RECORDS">>

ArtifactSet == {ArtifactTables[i] : i \in 1..Len(ArtifactTables)}

EmptyStore(uploaded) ==
    [jobs |-> IF uploaded THEN <<[job_id |-> JobId, status |-> "UPLOADED"]>> ELSE <<>>,
     rows |-> [t \in ArtifactSet |-> 0]]

\* what a commit makes durable, compared with the previous committed contents
Changed(old, new) ==
    {t \in ArtifactSet : old.rows[t] # new.rows[t]}
    \cup {"JOBS:" \o new.jobs[i].status : i \in
            {j \in 1..Len(new.jobs) : j > Len(old.jobs) \/ old.jobs[j] # new.jobs[j]}}

\* INSERT INTO <table> of n rows inside the transaction
InsertRows(store, t, n) == [store EXCEPT !.rows[t] = @ + n]

\* UPDATE METADATA.JOBS SET status = s WHERE job_id = id
UpdateJobs(store, id, s) ==
    [store EXCEPT !.jobs = [i \in 1..Len(store.jobs) |->
        IF store.jobs[i].job_id = id THEN [store.jobs[i] EXCEPT !.status = s]
        ELSE store.jobs[i]]]

\* INSERT INTO METADATA.JOBS (job_id, status)
InsertJob(store, id, s) ==
    [store EXCEPT !.jobs = Append(@, [job_id |-> id, status |-> s])]

----------------------------------------------------------------------------
(* run_analysis (analysis.py:124-367), one action per stage.  Every stage   *)
(* may raise; a raise is caught by the handler at line 343.                 *)

RowCounts == {0, MinRows - 1, MinRows, MinRows + 1}
FeatureCounts == {1, CommitEvery - 1, CommitEvery, MaxFeatures}

RunInputs ==
    [source_table : BOOLEAN,      \* config has a 'source_table'
     callback     : BOOLEAN,      \* a progress_callback was passed
     uploaded     : BOOLEAN,      \* the upload step left an UPLOADED job record
     count        : RowCounts,    \* rows of the source table
     nfeat        : FeatureCounts]  \* feature columns of the prepared dataset

SuccessKeys == {"success", "metrics", "feature_importance", "scoring_rules",
                "response_rates"}
FailureKeys == {"success", "error"}

\* the value of `result` while run_analysis has not returned
NoResult == [success |-> FALSE, error |-> "none", keys |-> {}]

Enter(stage) == stages' = Append(stages, stage)

\* an exception raised in `stage` reaches `except Exception as e` (line 343)
Raise(stage) == /\ exc' = stage
                /\ pc' = "except"

\* conn.commit()
Commit(new) == /\ committed' = new
               /\ commitLog' = IF Changed(committed, new) = {} THEN commitLog
                               ELSE Append(commitLog, Changed(committed, new))

\* `if progress_callback: progress_callback(pct, msg)`
ReportProgress(pct, from, to) ==
    /\ pc = from
    /\ IF inp.callback
       THEN /\ progress' = Append(progress, pct)
            /\ \E ok \in BOOLEAN :
                 IF ok THEN pc' = to /\ exc' = exc ELSE Raise("progress")
       ELSE /\ pc' = to
            /\ UNCHANGED <<progress, exc>>
    /\ UNCHANGED <<inp, job_id, cursor, txn, committed, commitLog, stages,
                   statusWrite, result>>

Progress0 == ReportProgress(0, "start", "config")
Progress10 == ReportProgress(10, "p10", "prepare")
\* mutant: the third milestone is delivered as 5
Progress30Early == ReportProgress(5, "p30", "split")
Progress30 == ReportProgress(30, "p30", "split")
Progress50 == ReportProgress(50, "p50", "features")
Progress70 == ReportProgress(70, "p70", "scores")
Progress100 == ReportProgress(100, "p100", "return")

\* lines 135-144: source_table check and job_id
CheckSourceTable ==
    /\ pc = "config"
    /\ Enter("config")
    /\ IF inp.source_table
       THEN /\ job_id' = JobId
            /\ pc' = "cursor"
            /\ exc' = exc
       ELSE /\ Raise("config")
            /\ job_id' = job_id
    /\ UNCHANGED <<inp, cursor, txn, committed, commitLog, progress,
                   statusWrite, result>>

\* line 150: cursor = conn.cursor()
OpenCursor ==
    /\ pc = "cursor"
    /\ Enter("cursor")
    /\ \E ok \in BOOLEAN :
         IF ok THEN /\ cursor' = "open"
                    /\ pc' = "count"
                    /\ exc' = exc
         ELSE /\ Raise("cursor")
              /\ cursor' = cursor
    /\ UNCHANGED <<inp, job_id, txn, committed, commitLog, progress,
                   statusWrite, result>>

\* lines 151-156: SELECT COUNT(*), empty table check
CountRows ==
    /\ pc = "count"
    /\ Enter("count")
    /\ \E ok \in BOOLEAN :
         IF ok /\ inp.count # 0 THEN pc' = "load" /\ exc' = exc
         ELSE Raise("count")
    /\ UNCHANGED <<inp, job_id, cursor, txn, committed, commitLog, progress,
                   statusWrite, result>>

\* lines 159-165: SELECT *, DataFrame
LoadData ==
    /\ pc = "load"
    /\ Enter("load")
    /\ \E ok \in BOOLEAN :
         IF ok THEN pc' = "p10" /\ exc' = exc ELSE Raise("load")
    /\ UNCHANGED <<inp, job_id, cursor, txn, committed, commitLog, progress,
                   statusWrite, result>>

\* mutant: the preparation error is recorded but not re-raised
PrepareFeaturesSwallowed ==
    /\ pc = "prepare"
    /\ Enter("prepare")
    /\ \E outcome \in {"ok", "transform_error", "validation_error"} :
         /\ pc' = "size"
         /\ exc' = IF outcome = "ok" THEN exc ELSE outcome
    /\ UNCHANGED <<inp, job_id, cursor, txn, committed, commitLog, progress,
                   statusWrite, result>>

\* lines 171-182: prepare_analysis_data (transformation, then validation);
\* any exception is re-raised as ValueError("Data preparation failed: ...")
PrepareFeatures ==
    /\ pc = "prepare"
    /\ Enter("prepare")
    /\ \E outcome \in {"ok", "transform_error", "validation_error"} :
         IF outcome = "ok" THEN pc' = "size" /\ exc' = exc
         ELSE Raise(outcome)
    /\ UNCHANGED <<inp, job_id, cursor, txn, committed, commitLog, progress,
                   statusWrite, result>>

\* mutant: the size check written with <=
ValidateDataSizeOffByOne ==
    /\ pc = "size"
    /\ Enter("size")
    /\ IF inp.count <= MinRows THEN Raise("insufficient_data")
       ELSE pc' = "p30" /\ exc' = exc
    /\ UNCHANGED <<inp, job_id, cursor, txn, committed, commitLog, progress,
                   statusWrite, result>>

\* lines 185-186: minimum sample size (all rows of the table are retained)
ValidateDataSize ==
    /\ pc = "size"
    /\ Enter("size")
    /\ IF inp.count < MinRows THEN Raise("insufficient_data")
       ELSE pc' = "p30" /\ exc' = exc
    /\ UNCHANGED <<inp, job_id, cursor, txn, committed, commitLog, progress,
                   statusWrite, result>>

\* a model-fitting step that only computes in memory
FitStep(stage, to) ==
    /\ pc = stage
    /\ Enter(stage)
    /\ \E ok \in BOOLEAN :
         IF ok THEN pc' = to /\ exc' = exc ELSE Raise("training_error")
    /\ UNCHANGED <<inp, job_id, cursor, txn, committed, commitLog, progress,
                   statusWrite, result>>

TrainTestSplit == FitStep("split", "scale")     \* lines 193-195
ScalerFit == FitStep("scale", "fit")            \* lines 197-199
ModelFit == FitStep("fit", "p50")               \* lines 202-209

\* lines 217-225: feature importance table (in memory)
AnalyzeFeatures ==
    /\ pc = "features"
    /\ Enter("features")
    /\ \E ok \in BOOLEAN :
         IF ok THEN pc' = "job" /\ exc' = exc ELSE Raise("features")
    /\ UNCHANGED <<inp, job_id, cursor, txn, committed, commitLog, progress,
                   statusWrite, result>>

\* a statement `cursor.execute(<one write>); conn.commit()`
WriteAndCommit(stage, new, to) ==
    /\ pc = stage
    /\ Enter(stage)
    /\ \E outcome \in {"ok", "execute_failed", "commit_failed"} :
         CASE outcome = "ok" ->
                /\ txn' = new
                /\ Commit(new)
                /\ pc' = to
                /\ exc' = exc
           [] outcome = "execute_failed" ->
                /\ Raise(stage)
                /\ UNCHANGED <<txn, committed, commitLog>>
           [] outcome = "commit_failed" ->
                /\ txn' = new
                /\ Raise(stage)
                /\ UNCHANGED <<committed, commitLog>>
    /\ UNCHANGED <<inp, job_id, cursor, progress, statusWrite, result>>

\* a loop of n single-row INSERTs into `table` followed by one conn.commit();
\* k is the number of rows inserted when the loop ends or raises
SaveLoop(stage, table, n, to) ==
    /\ pc = stage
    /\ Enter(stage)
    /\ \E k \in 0..n, outcome \in {"ok", "execute_failed", "commit_failed"} :
         /\ (outcome = "execute_failed") <=> (k < n)
         /\ txn' = InsertRows(txn, table, k)
         /\ IF outcome = "ok"
            THEN /\ Commit(txn')
                 /\ pc' = to
                 /\ exc' = exc
            ELSE /\ Raise(stage)
                 /\ UNCHANGED <<committed, commitLog>>
    /\ UNCHANGED <<inp, job_id, cursor, progress, statusWrite, result>>

\* lines 228-236: INSERT INTO METADATA.JOBS ... 'RUNNING'; commit
CreateJob == WriteAndCommit("job", InsertJob(txn, job_id, "RUNNING"), "model")

\* mutant: the commit after save_model_details is missing
SaveModelDetailsNoCommit ==
    /\ pc = "model"
    /\ Enter("model")
    /\ \E ok \in BOOLEAN :
         IF ok THEN /\ txn' = InsertRows(txn, "MODEL_DETAILS", 1)
                    /\ pc' = "importance"
                    /\ exc' = exc
         ELSE /\ Raise("model")
              /\ txn' = txn
    /\ UNCHANGED <<inp, job_id, cursor, committed, commitLog, progress,
                   statusWrite, result>>

\* lines 240-241: save_model_details (lines 25-55); commit
SaveModelDetails ==
    WriteAndCommit("model", InsertRows(txn, "MODEL_DETAILS", 1), "importance")

\* rows of FEATURE_IMPORTANCE committed when k rows were inserted and the
\* loop of lines 251-259 is still running: a commit after every tenth row
BatchCommitted(k) == (k \div CommitEvery) * CommitEvery

\* rows made durable by the first commit that succeeds in the loop
FirstBatch(done) == IF done < CommitEvery THEN done ELSE CommitEvery

\* the commit log after the later commits of the loop made `rest` more rows durable
RECURSIVE LogBatches(_, _)
LogBatches(log, rest) ==
    IF rest <= 0 THEN log
    ELSE Append(LogBatches(log, rest - CommitEvery), {"FEATURE_IMPORTANCE"})

\* lines 244-261: one INSERT per feature, commit every 10 rows, final commit
SaveFeatureImportance ==
    /\ pc = "importance"
    /\ Enter("importance")
    /\ \E k \in 0..inp.nfeat, outcome \in {"ok", "execute_failed", "commit_failed"} :
         /\ (outcome = "execute_failed") => (k < inp.nfeat)
         /\ (outcome = "ok") => (k = inp.nfeat)
         /\ (outcome = "commit_failed") =>
                (k = inp.nfeat \/ (k > 0 /\ k % CommitEvery = 0))
         /\ txn' = InsertRows(txn, "FEATURE_IMPORTANCE", k)
         /\ LET done == CASE outcome = "ok" -> k
                          [] outcome = "execute_failed" -> BatchCommitted(k)
                          [] outcome = "commit_failed" -> BatchCommitted(k - 1)
                first == InsertRows(txn, "FEATURE_IMPORTANCE", FirstBatch(done))
            IN  IF done = 0
                THEN UNCHANGED <<committed, commitLog>>
                ELSE /\ committed' = InsertRows(txn, "FEATURE_IMPORTANCE", done)
                     /\ commitLog' =
                          LogBatches(Append(commitLog, Changed(committed, first)),
                                     done - FirstBatch(done))
         /\ IF outcome = "ok" THEN pc' = "rules" /\ exc' = exc
            ELSE Raise("importance")
    /\ UNCHANGED <<inp, job_id, cursor, progress, statusWrite, result>>

\* lines 264-275: generate_scoring_rules, save_scoring_rules (lines 67-86), commit
SaveScoringRules ==
    \E nrules \in {1, 1 + inp.nfeat, 1 + 2 * inp.nfeat} :
        SaveLoop("rules", "SCORING_RULES", nrules, "p70")

\* lines 281-286: predict_proba and apply_scoring_rules
CalculateScores ==
    /\ pc = "scores"
    /\ Enter("scores")
    /\ \E ok \in BOOLEAN :
         IF ok THEN pc' = "deciles" /\ exc' = exc ELSE Raise("scores")
    /\ UNCHANGED <<inp, job_id, cursor, txn, committed, commitLog, progress,
                   statusWrite, result>>

\* lines 289-300: pd.qcut, response rates, lift (qcut raises on duplicate edges)
CalculateDeciles ==
    /\ pc = "deciles"
    /\ Enter("deciles")
    /\ \E ok \in BOOLEAN :
         IF ok THEN pc' = "metrics" /\ exc' = exc ELSE Raise("deciles")
    /\ UNCHANGED <<inp, job_id, cursor, txn, committed, commitLog, progress,
                   statusWrite, result>>

\* lines 303-304: save_model_metrics (lines 57-65); commit
SaveModelMetrics ==
    WriteAndCommit("metrics", InsertRows(txn, "MODEL_METRICS", 1), "rates")

\* lines 307-308: save_response_rates (lines 88-103); commit
SaveResponseRates == SaveLoop("rates", "RESPONSE_RATES", NumDeciles, "records")

\* lines 311-312: save_scored_records (lines 105-122); commit
SaveScoredRecords == SaveLoop("records", "SCORED_RECORDS", inp.count, "completed")

\* lines 315-325: UPDATE METADATA.JOBS SET status = 'COMPLETED'; commit
UpdateJobStatus ==
    WriteAndCommit("completed", UpdateJobs(txn, job_id, "COMPLETED"), "p100")

\* lines 332-341: the success result
ReturnSuccess ==
    /\ pc = "return"
    /\ Enter("return")
    /\ \E ok \in BOOLEAN :
         IF ok THEN /\ result' = [success |-> TRUE, error |-> "none",
                                  keys |-> SuccessKeys]
                    /\ pc' = "finally"
                    /\ exc' = exc
         ELSE /\ Raise("result")
              /\ result' = result
    /\ UNCHANGED <<inp, job_id, cursor, txn, committed, commitLog, progress,
                   statusWrite>>

\* the status write of the handler (lines 346-359)
StatusWrite(tried) ==
    IF tried
    THEN \E outcome \in {"ok", "execute_failed", "commit_failed"} :
           /\ statusWrite' = outcome
           /\ CASE outcome = "ok" ->
                     /\ txn' = UpdateJobs(txn, job_id, "FAILED")
                     /\ Commit(txn')
                [] outcome = "execute_failed" ->
                     UNCHANGED <<txn, committed, commitLog>>
                [] outcome = "commit_failed" ->
                     /\ txn' = UpdateJobs(txn, job_id, "FAILED")
                     /\ UNCHANGED <<committed, commitLog>>
    ELSE /\ statusWrite' = "skipped"
         /\ UNCHANGED <<txn, committed, commitLog>>

\* mutant: a failed status write replaces the error that is returned
HandleExceptionMasked ==
    /\ pc = "except"
    /\ Enter("except")
    /\ StatusWrite(job_id # "unset" /\ cursor # "None")
    /\ result' = [success |-> FALSE,
                  error |-> IF statusWrite' \in {"execute_failed", "commit_failed"}
                            THEN "update_error" ELSE exc,
                  keys |-> FailureKeys]
    /\ pc' = "finally"
    /\ UNCHANGED <<inp, job_id, cursor, progress, exc>>

\* mutant: the handler re-raises after the status write
HandleExceptionReraise ==
    /\ pc = "except"
    /\ Enter("except")
    /\ StatusWrite(job_id # "unset" /\ cursor # "None")
    /\ result' = result
    /\ pc' = "finally"
    /\ UNCHANGED <<inp, job_id, cursor, progress, exc>>

\* lines 343-364: the handler.  The FAILED update is tried only when job_id
\* is bound and the cursor exists; its own failure is swallowed (line 358).
HandleException ==
    /\ pc = "except"
    /\ Enter("except")
    /\ StatusWrite(job_id # "unset" /\ cursor # "None")
    /\ result' = [success |-> FALSE, error |-> exc, keys |-> FailureKeys]
    /\ pc' = "finally"
    /\ UNCHANGED <<inp, job_id, cursor, progress, exc>>

\* lines 365-367: finally: cursor.close(); the function returns
Finally ==
    /\ pc = "finally"
    /\ cursor' = IF cursor # "None" THEN "closed" ELSE cursor
    /\ pc' = "done"
    /\ UNCHANGED <<inp, job_id, txn, committed, commitLog, progress, stages,
                   exc, statusWrite, result>>

\* run_analysis is not running
RunIdle ==
    /\ pc = "idle"
    /\ inp = [source_table |-> FALSE, callback |-> FALSE, uploaded |-> FALSE,
              count |-> 0, nfeat |-> 0]
    /\ job_id = "unset"
    /\ cursor = "None"
    /\ txn = EmptyStore(FALSE)
    /\ committed = EmptyStore(FALSE)
    /\ commitLog = <<>>
    /\ progress = <<>>
    /\ stages = <<>>
    /\ exc = "none"
    /\ statusWrite = "none"
    /\ result = NoResult

\* the rule evaluator is not running
ScoreIdle ==
    /\ score_pc = "idle"
    /\ df = <<>>
    /\ rules = <<>>
    /\ rule_idx = 0
    /\ scores = <<>>

\* the data preparation is not running
PrepIdle ==
    /\ prep_pc = "idle"
    /\ raw = <<>>
    /\ config = <<>>
    /\ df_prep = <<>>
    /\ prep_error = "none"

GenIdle ==
    /\ gen_pc = "idle"
    /\ gen_in = <<>>
    /\ feature_idx = 0
    /\ gen_rules = <<>>
    /\ gen_error = "none"

JobsIdle ==
    /\ now = 0
    /\ raw_tables = <<>>
    /\ sessions = <<>>
    /\ job_rows = <<>>
    /\ artifact_rows = {}

DecIdle ==
    /\ dec_pc = "idle"
    /\ regression_scores = <<>>
    /\ y_values = <<>>
    /\ deciles = <<>>
    /\ response_rates = <<>>
    /\ dec_error = "none"

\* the value of `upload_result` while validate_data has not returned
NoUpload == [success |-> FALSE, error |-> "none"]

NoRows == [raw |-> 0, quality |-> 0, uploaded |-> 0]

\* validate_data is not running
UploadIdle ==
    /\ upload_pc = "idle"
    /\ upload_in = <<>>
    /\ warehouse = [table |-> FALSE, pending |-> NoRows, committed |-> NoRows]
    /\ conn_calls = <<>>
    /\ upload_exc = "none"
    /\ upload_result = NoUpload

\* execute_with_retry is not running
RetryIdle ==
    /\ retry_pc = "idle"
    /\ retry_in = <<>>
    /\ attempt = 0
    /\ conn = 0
    /\ retry_cursor = "None"
    /\ retry_exc = "none"
    /\ retry_calls = <<>>
    /\ retry_result = "none"

RunInit ==
    /\ UploadIdle
    /\ RetryIdle
    /\ ScoreIdle
    /\ PrepIdle
    /\ DecIdle
    /\ JobsIdle
    /\ GenIdle
    /\ inp \in RunInputs
    /\ pc = "start"
    /\ job_id = "unset"
    /\ cursor = "None"
    /\ txn = EmptyStore(inp.uploaded)
    /\ committed = EmptyStore(inp.uploaded)
    /\ commitLog = <<>>
    /\ progress = <<>>
    /\ stages = <<>>
    /\ exc = "none"
    /\ statusWrite = "none"
    /\ result = NoResult

RunNext ==
    \/ Progress0 \/ CheckSourceTable \/ OpenCursor \/ CountRows \/ LoadData
    \/ Progress10 \/ PrepareFeatures \/ ValidateDataSize
    \/ Progress30 \/ TrainTestSplit \/ ScalerFit \/ ModelFit
    \/ Progress50 \/ AnalyzeFeatures \/ CreateJob \/ SaveModelDetails
    \/ SaveFeatureImportance \/ SaveScoringRules
    \/ Progress70 \/ CalculateScores \/ CalculateDeciles \/ SaveModelMetrics
    \/ SaveResponseRates \/ SaveScoredRecords \/ UpdateJobStatus
    \/ Progress100 \/ ReturnSuccess \/ HandleException \/ Finally

Spec == RunInit /\ [][RunNext /\ UNCHANGED <<scoreVars, prepVars, decVars, jobVars, genVars, uploadVars, retryVars>>]_vars

----------------------------------------------------------------------------
(* Claims about run_analysis, checked under Spec *)

Entered(stage) == \E i \in 1..Len(stages) : stages[i] = stage

Failed == result # NoResult /\ ~result.success
Succeeded == result # NoResult /\ result.success

PreparationOrTrainingErrors ==
    {"transform_error", "validation_error", "insufficient_data", "training_error"}

StagesAfterTraining ==
    {"features", "job", "model", "importance", "rules", "scores", "deciles",
     "metrics", "rates", "records", "completed", "return"}

RunningCommitted ==
    \E i \in 1..Len(committed.jobs) : committed.jobs[i].status = "RUNNING"

\* C1: when feature transformation, validation or model training fails, no
\* later stage is entered, no artifact row and no RUNNING job record is
\* written or committed, and the returned value is a failure result without
\* metrics, rules or decile fields.
C1_AbortOnEarlyFailure ==
    exc \in PreparationOrTrainingErrors =>
        /\ pc \in {"except", "finally", "done"}
        /\ \A s \in StagesAfterTraining : ~Entered(s)
        /\ \A t \in ArtifactSet : txn.rows[t] = 0 /\ committed.rows[t] = 0
        /\ ~RunningCommitted
        /\ commitLog \in {<<>>, <<{"JOBS:FAILED"}>>}
        /\ pc = "done" => /\ Failed
                          /\ result.keys = FailureKeys
                          /\ result.error = exc

C1_Witness ==
    /\ pc = "done"
    /\ exc = "validation_error"
    /\ Failed
    /\ statusWrite = "ok"

\* C2 as stated: whenever run_analysis fails, the FAILED status write was
\* attempted before the failure result was returned.
C2_StatusAlwaysAttempted ==
    Failed => statusWrite \in {"ok", "execute_failed", "commit_failed"}

\* C2 amended: a failure after the cursor was opened attempts the FAILED
\* status write before the failure result is returned, a failure before that
\* (progress callback at 0, missing source table, cursor creation) returns
\* without a status write; in both cases the result carries the original
\* error, also when the status write itself failed.
C2_StatusAttemptedOnceCursorOpen ==
    Failed =>
        /\ Entered("count") => statusWrite \in {"ok", "execute_failed", "commit_failed"}
        /\ ~Entered("count") => statusWrite = "skipped"
        /\ result.error = exc
        /\ result.error # "update_error"
        /\ statusWrite = "ok" =>
              \A i \in 1..Len(committed.jobs) :
                  committed.jobs[i].job_id = job_id =>
                      committed.jobs[i].status = "FAILED"

C2_Witness ==
    /\ pc = "done"
    /\ Failed
    /\ statusWrite = "commit_failed"
    /\ result.error = "rules"

\* C3: a failure in any stage ends in a returned {success: false, error}
\* value carrying that failure; the call never ends without a returned value.
C3_StructuredFailure ==
    /\ pc = "done" => result # NoResult
    /\ (pc = "done" /\ exc # "none") =>
          result = [success |-> FALSE, error |-> exc, keys |-> FailureKeys]
    /\ (pc = "done" /\ exc = "none") => Succeeded

C3_Witness ==
    /\ pc = "done"
    /\ exc = "result"
    /\ Failed

CommitOrder ==
    <<{"JOBS:RUNNING"}, {"MODEL_DETAILS"}, {"FEATURE_IMPORTANCE"}, {"SCORING_RULES"},
      {"MODEL_METRICS"}, {"RESPONSE_RATES"}, {"SCORED_RECORDS"}, {"JOBS:COMPLETED"}>>

\* the commit log without immediate repetitions
RECURSIVE Squeeze(_)
Squeeze(log) ==
    IF Len(log) <= 1 THEN log
    ELSE IF log[1] = log[2] THEN Squeeze(Tail(log))
         ELSE <<log[1]>> \o Squeeze(Tail(log))

IsPrefix(a, b) == Len(a) <= Len(b) /\ SubSeq(b, 1, Len(a)) = a

\* C4: while no stage has failed, the commits of a run happen in the order
\* RUNNING job record, model, feature importance, scoring rules, model
\* metrics, response rates, scored records, COMPLETED, each on its own; a
\* successful run has made all of them.
C4_CommitOrder ==
    /\ exc = "none" => IsPrefix(Squeeze(commitLog), CommitOrder)
    /\ Succeeded => Squeeze(commitLog) = CommitOrder

C4_Witness ==
    /\ pc = "done"
    /\ Succeeded
    /\ inp.nfeat > CommitEvery
    /\ Len(commitLog) = Len(CommitOrder) + 1

FittingStages == {"split", "scale", "fit"}

\* C8: with fewer than 100 prepared rows the run fails at the size check and
\* no fitting step (split, scaler fit, classifier fit) is entered; with 100
\* rows or more the size check does not fail the run.
C8_MinimumRows ==
    /\ (Entered("size") /\ inp.count < MinRows) =>
          /\ exc = "insufficient_data"
          /\ \A s \in FittingStages : ~Entered(s)
    /\ inp.count >= MinRows => exc # "insufficient_data"
    /\ (Entered("size") /\ inp.count >= MinRows /\ pc = "p30") => exc = "none"

C8_Witness ==
    /\ pc = "done"
    /\ inp.count = MinRows - 1
    /\ exc = "insufficient_data"
    /\ Failed

----------------------------------------------------------------------------
(* Tables.  A cell is missing (None/NaN), a number (a fraction n/d in       *)
(* lowest terms) or a string (a sequence of characters).  A column has a    *)
(* name (a string), a dtype and one cell per row; a                         *)
(* DataFrame is a sequence of columns.  A string is written character by    *)
(* character where its spelling matters (numerals, underscores, case) and   *)
(* as a single element where it does not ("MISSING", "age").                *)

NA == [k |-> "na", n |-> 0, d |-> 1, s |-> <<>>]
Num(n, d) == [k |-> "num", n |-> n, d |-> d, s |-> <<>>]
Str(s) == [k |-> "str", n |-> 0, d |-> 1, s |-> s]

IsNA(c) == c.k = "na"
IsNum(c) == c.k = "num"

\* a > b on cells, as pandas compares a numeric column with a number (NaN > b is False)
Gt(a, b) == IsNum(a) /\ IsNum(b) /\ a.n * b.d > b.n * a.d

\* a == 1
IsOne(a) == IsNum(a) /\ a.n = a.d

Column(name, dtype, vals) == [name |-> name, dtype |-> dtype, vals |-> vals]

HasColumn(frame, name) == \E i \in 1..Len(frame) : frame[i].name = name

\* frame[name]
GetColumn(frame, name) ==
    frame[CHOOSE i \in 1..Len(frame) : frame[i].name = name]

\* len(frame)
NumRows(frame) == IF frame = <<>> THEN 0 ELSE Len(frame[1].vals)

----------------------------------------------------------------------------
(* apply_scoring_rules (scoring.py:106-151) *)

BaseName == <<"BASE">>

Rule(variable, condition, threshold, adjustment) ==
    [variable |-> variable, condition |-> condition,
     threshold |-> threshold, adjustment |-> adjustment]

\* line 121: next(rule for rule in rules if rule['variable'] == 'BASE')
BaseRule(rs) ==
    rs[CHOOSE i \in 1..Len(rs) :
          /\ rs[i].variable = BaseName
          /\ \A j \in 1..(i - 1) : rs[j].variable # BaseName]

\* lines 133-146: does the loop body reach line 149 for this rule
Applies(frame, rule) ==
    /\ rule.variable # BaseName
    /\ HasColumn(frame, rule.variable)
    /\ rule.condition \in {">", "present"}

\* line 139 raises TypeError when a string is compared with the threshold
ComparisonFails(frame, rule) ==
    /\ Applies(frame, rule)
    /\ rule.condition = ">"
    /\ \E i \in 1..NumRows(frame) : GetColumn(frame, rule.variable).vals[i].k = "str"

\* lines 137-144: the mask of the rows the rule matches
Mask(frame, rule) ==
    LET col == GetColumn(frame, rule.variable)
    IN  [i \in 1..NumRows(frame) |->
           IF rule.condition = ">" THEN Gt(col.vals[i], rule.threshold)
           ELSE IF col.dtype \in {"float64", "int64"} THEN IsOne(col.vals[i])
                ELSE ~IsNA(col.vals[i])]

\* mutant: line 149 written as an assignment instead of +=
AddWhereAssigned(sc, mask, adjustment) ==
    [i \in 1..Len(sc) |-> IF mask[i] THEN adjustment ELSE sc[i]]

\* mutant: the adjusted score is capped
AddWhereCapped(sc, mask, adjustment) ==
    [i \in 1..Len(sc) |->
        IF mask[i] THEN (IF sc[i] + adjustment > 1200 THEN 1200 ELSE sc[i] + adjustment)
        ELSE sc[i]]

\* line 149: scores[mask] += adjustment
AddWhere(sc, mask, adjustment) ==
    [i \in 1..Len(sc) |-> IF mask[i] THEN sc[i] + adjustment ELSE sc[i]]

\* lines 121-122: the base rule gives every row its starting score
ScoreStart ==
    /\ score_pc = "start"
    /\ scores' = [i \in 1..NumRows(df) |-> BaseRule(rules).adjustment]
    /\ rule_idx' = 1
    /\ score_pc' = "loop"
    /\ UNCHANGED <<df, rules>>

\* mutant: a rule on a column the dataset lacks raises KeyError
ScoreRuleKeyError ==
    /\ score_pc = "loop"
    /\ rule_idx <= Len(rules)
    /\ LET rule == rules[rule_idx]
       IN  IF rule.variable # BaseName /\ ~HasColumn(df, rule.variable)
           THEN /\ score_pc' = "KeyError"
                /\ UNCHANGED <<scores, rule_idx>>
           ELSE IF ComparisonFails(df, rule)
           THEN /\ score_pc' = "TypeError"
                /\ UNCHANGED <<scores, rule_idx>>
           ELSE /\ scores' = IF Applies(df, rule)
                             THEN AddWhere(scores, Mask(df, rule), rule.adjustment)
                             ELSE scores
                /\ rule_idx' = rule_idx + 1
                /\ score_pc' = score_pc
    /\ UNCHANGED <<df, rules>>

\* lines 125-149: one iteration of the loop over the rules
ScoreRule ==
    /\ score_pc = "loop"
    /\ rule_idx <= Len(rules)
    /\ LET rule == rules[rule_idx]
       IN  IF ComparisonFails(df, rule)
           THEN /\ score_pc' = "TypeError"
                /\ UNCHANGED <<scores, rule_idx>>
           ELSE /\ scores' = IF Applies(df, rule)
                             THEN AddWhere(scores, Mask(df, rule), rule.adjustment)
                             ELSE scores
                /\ rule_idx' = rule_idx + 1
                /\ score_pc' = score_pc
    /\ UNCHANGED <<df, rules>>

\* line 151: return scores
ScoreReturn ==
    /\ score_pc = "loop"
    /\ rule_idx > Len(rules)
    /\ score_pc' = "done"
    /\ UNCHANGED <<df, rules, rule_idx, scores>>

(* Inputs of the evaluator *)

\* row i of a column that repeats the given cells
Cycle(cells) == [i \in 1..ScoreRows |-> cells[((i - 1) % Len(cells)) + 1]]

AgeName == <<"age">>
EastName == <<"region", "_", "east">>
AbsentName == <<"zz">>

AgeColumns ==
    {Column(AgeName, "float64", Cycle(<<NA, Num(1, 5), Num(1, 2), Num(1, 1)>>)),
     Column(AgeName, "float64", Cycle(<<Num(3, 10), Num(7, 10), Num(71, 100), Num(0, 1)>>))}

EastColumns ==
    {Column(EastName, "float64", Cycle(<<Num(1, 1), Num(0, 1), NA, Num(1, 1)>>)),
     Column(EastName, "int64", Cycle(<<Num(-1, 1), Num(0, 1), Num(1, 1), Num(2, 1)>>)),
     Column(EastName, "object", Cycle(<<Str(<<"a">>), NA, Str(<<"b">>), Str(<<"a">>)>>))}

ScoreFrames == {<<a, e>> : a \in AgeColumns, e \in EastColumns}

RuleUniverse ==
    {Rule(BaseName, "always", NA, 1000),
     Rule(BaseName, "present", NA, 500),
     Rule(AgeName, ">", Num(7, 10), 210),
     Rule(AgeName, ">", Num(3, 10), 90),
     Rule(AgeName, "present", NA, 40),
     Rule(EastName, "present", NA, -300),
     Rule(EastName, ">", Num(1, 2), 7),
     Rule(EastName, "<", Num(1, 2), 11),
     Rule(AbsentName, "present", NA, 25)}

HasBase(rs) == \E i \in 1..Len(rs) : rs[i].variable = BaseName

RuleSets ==
    {rs \in UNION {[1..n -> RuleUniverse] : n \in 1..MaxRules} : HasBase(rs)}

ScoreInit ==
    /\ UploadIdle
    /\ RetryIdle
    /\ RunIdle
    /\ PrepIdle
    /\ DecIdle
    /\ JobsIdle
    /\ GenIdle
    /\ score_pc = "start"
    /\ df \in ScoreFrames
    /\ rules \in RuleSets
    /\ rule_idx = 0
    /\ scores = <<>>

ScoreNext == ScoreStart \/ ScoreRule \/ ScoreReturn

SpecScore == ScoreInit /\ [][ScoreNext /\ UNCHANGED <<runVars, prepVars, decVars, jobVars, genVars, uploadVars, retryVars>>]_vars

----------------------------------------------------------------------------
(* Claims about apply_scoring_rules, checked under SpecScore *)

\* the adjustments of the non-base rules of rs whose predicate holds on row i
RECURSIVE SumMatching(_, _, _)
SumMatching(frame, rs, i) ==
    IF rs = <<>> THEN 0
    ELSE (IF Applies(frame, rs[1]) /\ Mask(frame, rs[1])[i]
          THEN rs[1].adjustment ELSE 0)
         + SumMatching(frame, Tail(rs), i)

\* the non-base rules of rs that hold / do not hold on row i
Matching(frame, rs, i) ==
    {j \in 1..Len(rs) : Applies(frame, rs[j]) /\ Mask(frame, rs[j])[i]}
NotMatching(frame, rs, i) ==
    {j \in 1..Len(rs) : rs[j].variable # BaseName /\ j \notin Matching(frame, rs, i)}

\* C5: the score returned for a row is the adjustment of the BASE rule plus
\* the sum of the adjustments of exactly the non-base rules whose predicate
\* holds on the row; after k loop iterations it is that sum over the first k rules.
C5_AdditiveScore ==
    /\ score_pc = "done" =>
          /\ Len(scores) = NumRows(df)
          /\ \A i \in 1..NumRows(df) :
                scores[i] = BaseRule(rules).adjustment + SumMatching(df, rules, i)
    /\ score_pc = "loop" =>
          \A i \in 1..NumRows(df) :
             scores[i] = BaseRule(rules).adjustment
                         + SumMatching(df, SubSeq(rules, 1, rule_idx - 1), i)

C5_Witness ==
    /\ score_pc = "done"
    /\ \E i \in 1..NumRows(df) :
          /\ Cardinality(Matching(df, rules, i)) >= 2
          /\ scores[i] = 1000 + 210 + 90
    /\ \E i \in 1..NumRows(df) :
          /\ NotMatching(df, rules, i) # {}
          /\ scores[i] = 1000

----------------------------------------------------------------------------
(* Numbers and strings, as pandas and Python compute with them *)

Abs(x) == IF x < 0 THEN -x ELSE x

RECURSIVE GCD(_, _)
GCD(a, b) == IF b = 0 THEN a ELSE GCD(b, a % b)

\* the number n/d (d # 0) in lowest terms with a positive denominator
Frac(n, d) ==
    LET g == GCD(Abs(n), Abs(d))
        sgn == IF d < 0 THEN -1 ELSE 1
    IN  Num(sgn * (n \div g), sgn * (d \div g))

RAdd(a, b) == Frac(a.n * b.d + b.n * a.d, a.d * b.d)
RSub(a, b) == Frac(a.n * b.d - b.n * a.d, a.d * b.d)
RDiv(a, b) == Frac(a.n * b.d, a.d * b.n)
RLess(a, b) == a.n * b.d < b.n * a.d

Zero == Num(0, 1)
One == Num(1, 1)

\* the rows of a column that hold a number (pandas statistics skip NaN)
Present(vals) == {i \in 1..Len(vals) : IsNum(vals[i])}

\* Series.max() and Series.min(); NaN for a column without numbers
ColMax(vals) ==
    IF Present(vals) = {} THEN NA
    ELSE vals[CHOOSE i \in Present(vals) :
                 \A j \in Present(vals) : ~RLess(vals[i], vals[j])]
ColMin(vals) ==
    IF Present(vals) = {} THEN NA
    ELSE vals[CHOOSE i \in Present(vals) :
                 \A j \in Present(vals) : ~RLess(vals[j], vals[i])]

\* the k-th smallest number of a column
Kth(vals, k) ==
    vals[CHOOSE i \in Present(vals) :
            /\ Cardinality({j \in Present(vals) : RLess(vals[j], vals[i])}) < k
            /\ k <= Cardinality({j \in Present(vals) : ~RLess(vals[i], vals[j])})]

\* Series.median()
ColMedian(vals) ==
    LET n == Cardinality(Present(vals))
    IN  IF n = 0 THEN NA
        ELSE IF n % 2 = 1 THEN Kth(vals, (n + 1) \div 2)
        ELSE RDiv(RAdd(Kth(vals, n \div 2), Kth(vals, n \div 2 + 1)), Num(2, 1))

\* Series.nunique(): distinct values, missing ones not counted
NUnique(vals) == Cardinality({vals[i] : i \in {j \in 1..Len(vals) : ~IsNA(vals[j])}})

\* Series.unique(): distinct values, the missing value counted as one of them
Unique(vals) == {vals[i] : i \in 1..Len(vals)}

DigitChars == <<"0", "1", "2", "3", "4", "5", "6", "7", "8", "9">>
IsDigit(c) == \E i \in 1..Len(DigitChars) : DigitChars[i] = c
DigitValue(c) == (CHOOSE i \in 1..Len(DigitChars) : DigitChars[i] = c) - 1

\* the characters the regular expression [^0-9.-] leaves in place
IsNumericChar(c) == IsDigit(c) \/ c \in {".", "-"}

CountOf(s, c) == Cardinality({i \in 1..Len(s) : s[i] = c})

RECURSIVE DigitsValue(_)
DigitsValue(s) ==
    IF s = <<>> THEN 0
    ELSE 10 * DigitsValue(SubSeq(s, 1, Len(s) - 1)) + DigitValue(s[Len(s)])

RECURSIVE Pow10(_)
Pow10(k) == IF k = 0 THEN 1 ELSE 10 * Pow10(k - 1)

\* the number a string spells (optional minus sign, digits, at most one
\* decimal point); NA when it spells none
ParseNumber(s) ==
    LET neg == s # <<>> /\ s[1] = "-"
        body == IF neg THEN Tail(s) ELSE s
        dots == CountOf(body, ".")
        digits == SelectSeq(body, IsDigit)
        ok == /\ CountOf(body, "-") = 0
              /\ dots <= 1
              /\ digits # <<>>
              /\ Len(digits) + dots = Len(body)
        dotpos == IF dots = 0 THEN Len(body)
                  ELSE CHOOSE i \in 1..Len(body) : body[i] = "."
        value == Frac(DigitsValue(digits), Pow10(Len(body) - dotpos))
    IN  IF ~ok THEN NA
        ELSE IF neg THEN Num(-value.n, value.d) ELSE value

\* str.lower() on the characters that occur in the tables
LowerChar(c) ==
    CASE c = "Y" -> "y" [] c = "E" -> "e" [] c = "S" -> "s"
      [] c = "N" -> "n" [] c = "O" -> "o" [] c = "T" -> "t"
      [] OTHER -> c
Lower(s) == [i \in 1..Len(s) |-> LowerChar(s[i])]

\* the order of the characters (ASCII), for sorting strings
Alphabet == <<"-", ".", "0", "1", "2", "3", "4", "5", "6", "7", "8", "9",
              "E", "MISSING", "N", "O", "S", "T", "Y", "_",
              "a", "age", "b", "c", "e", "n", "o", "r", "s", "t", "w", "x", "y">>
CharRank(c) == CHOOSE i \in 1..Len(Alphabet) : Alphabet[i] = c

RECURSIVE LexLess(_, _)
LexLess(s, t) ==
    IF t = <<>> THEN FALSE
    ELSE IF s = <<>> THEN TRUE
    ELSE IF s[1] = t[1] THEN LexLess(Tail(s), Tail(t))
    ELSE CharRank(s[1]) < CharRank(t[1])

RECURSIVE SortStrings(_)
SortStrings(S) ==
    IF S = {} THEN <<>>
    ELSE LET m == CHOOSE x \in S : \A y \in S \ {x} : LexLess(x, y)
         IN  <<m>> \o SortStrings(S \ {m})

\* s.startswith(prefix)
StartsWith(s, prefix) ==
    Len(prefix) <= Len(s) /\ SubSeq(s, 1, Len(prefix)) = prefix

----------------------------------------------------------------------------
(* prepare_analysis_data (data_preparation.py:18-170) *)

\* config['variable_details'].get(col, {})
NoDetails == [type |-> "", has_order |-> FALSE, value_order |-> <<>>, direction |-> ""]
Details(cfg, col) ==
    IF col \in DOMAIN cfg.variable_details THEN cfg.variable_details[col]
    ELSE NoDetails

\* the elements of a list
Elems(seq) == {seq[i] : i \in 1..Len(seq)}

\* number of columns of the frame called `name`
NameCount(frame, name) == Cardinality({i \in 1..Len(frame) : frame[i].name = name})

\* frame[name] = col
SetColumn(frame, name, col) ==
    [i \in 1..Len(frame) |-> IF frame[i].name = name THEN col ELSE frame[i]]

MissingCategory == <<"MISSING">>

\* line 48: fillna('MISSING')
FillMissing(vals) ==
    [i \in 1..Len(vals) |-> IF IsNA(vals[i]) THEN Str(MissingCategory) ELSE vals[i]]

\* lines 54-56: value_map.get(str(x), -1); a later duplicate in value_order wins
Rank(value_order, s) ==
    LET at == {i \in 1..Len(value_order) : value_order[i] = s}
    IN  IF at = {} THEN -1
        ELSE (CHOOSE i \in at : \A j \in at : j <= i) - 1

\* mutant: ranks counted from 1
OrderedEncodeOneBased(vals, value_order) ==
    [i \in 1..Len(vals) |-> Num(Rank(value_order, vals[i].s) + 1, 1)]

OrderedEncode(vals, value_order) ==
    [i \in 1..Len(vals) |-> Num(Rank(value_order, vals[i].s), 1)]

\* mutant: get_dummies with drop_first=True
GetDummiesDropFirst(col, vals) ==
    LET cats == Tail(SortStrings({vals[i].s : i \in 1..Len(vals)}))
    IN  [c \in 1..Len(cats) |->
            Column(col \o <<"_">> \o cats[c], "float64",
                   [i \in 1..Len(vals) |-> IF vals[i].s = cats[c] THEN One ELSE Zero])]

\* line 61: pd.get_dummies(column, prefix=col).astype(float): one indicator
\* column per distinct value, in sorted order of the values
GetDummies(col, vals) ==
    LET cats == SortStrings({vals[i].s : i \in 1..Len(vals)})
    IN  [c \in 1..Len(cats) |->
            Column(col \o <<"_">> \o cats[c], "float64",
                   [i \in 1..Len(vals) |-> IF vals[i].s = cats[c] THEN One ELSE Zero])]

\* lines 39-69: the loop over the categorical variables, then the concat
RECURSIVE ProcessCategorical(_, _, _, _)
ProcessCategorical(frame, dummies, cfg, cats) ==
    IF cats = <<>> THEN frame \o dummies
    ELSE LET col == cats[1]
             details == Details(cfg, col)
             filled == FillMissing(GetColumn(frame, col).vals)
         IN  IF details.has_order
             THEN ProcessCategorical(
                      SetColumn(frame, col,
                          Column(col, "int64", OrderedEncode(filled, details.value_order))),
                      dummies, cfg, Tail(cats))
             ELSE ProcessCategorical(
                      SetColumn(frame, col, Column(col, "object", filled)),
                      dummies \o GetDummies(col, filled), cfg, Tail(cats))

\* lines 84-87: astype(str), strip everything but digits, '.', '-', to_numeric
\* with errors='coerce' (str(None) is 'None', which strips to the empty string)
CoerceNumeric(c) ==
    IF IsNum(c) THEN c
    ELSE IF IsNA(c) THEN NA
    ELSE ParseNumber(SelectSeq(c.s, IsNumericChar))

LowerIsBetter == "Lower values are better"
HigherIsBetter == "Higher values are better"

\* lines 91-94: max_val - value
Invert(vals) ==
    LET max_val == ColMax(vals)
    IN  [i \in 1..Len(vals) |->
           IF IsNum(vals[i]) /\ IsNum(max_val) THEN RSub(max_val, vals[i]) ELSE NA]

\* lines 98-102: fillna(median)
FillMedian(vals) ==
    LET median_val == ColMedian(vals)
    IN  [i \in 1..Len(vals) |-> IF IsNA(vals[i]) THEN median_val ELSE vals[i]]

\* mutant: the column is never scaled
ScaleMinMaxSkipped(vals) == vals

\* lines 105-108: min-max scaling, skipped when min equals max
ScaleMinMax(vals) ==
    LET min_val == ColMin(vals)
        max_val == ColMax(vals)
    IN  IF IsNA(min_val) THEN vals
        ELSE IF min_val = max_val THEN vals
        ELSE [i \in 1..Len(vals) |->
                IF IsNum(vals[i])
                THEN RDiv(RSub(vals[i], min_val), RSub(max_val, min_val))
                ELSE NA]

\* lines 84-108 for one numerical variable
NumericalColumn(col, vals, direction) ==
    LET numeric == [i \in 1..Len(vals) |-> CoerceNumeric(vals[i])]
        directed == IF direction = LowerIsBetter THEN Invert(numeric) ELSE numeric
    IN  Column(col, "float64", ScaleMinMax(FillMedian(directed)))

\* lines 73-116: the loop over the numerical variables
RECURSIVE ProcessNumerical(_, _, _)
ProcessNumerical(frame, cfg, nums) ==
    IF nums = <<>> THEN frame
    ELSE LET col == nums[1]
         IN  ProcessNumerical(
                 SetColumn(frame, col,
                     NumericalColumn(col, GetColumn(frame, col).vals,
                                     Details(cfg, col).direction)),
                 cfg, Tail(nums))

\* line 133: str(x).lower() in ['1', 'true', 'yes', 'y', 't']
TrueStrings == {<<"1">>, <<"t", "r", "u", "e">>, <<"y", "e", "s">>, <<"y">>, <<"t">>}
IsTrueString(c) == c.k = "str" /\ Lower(c.s) \in TrueStrings

\* lines 130-134: a target of dtype object
MapTarget(vals) ==
    [i \in 1..Len(vals) |-> IF IsTrueString(vals[i]) THEN One ELSE Zero]

\* line 138: set(unique()).issubset({0, 1, np.nan}); the NaN taken from the
\* column is another object than np.nan and is no member of that set
NumericTargetIsBinary(vals) ==
    \A i \in 1..Len(vals) : vals[i] \in {Zero, One}

\* lines 145-156: drop the categorical columns, then select keep_cols
DropColumns(frame, names) ==
    SelectSeq(frame, LAMBDA c : c.name \notin Elems(names))

KeepCols(frame, cfg) ==
    LET dropped == DropColumns(frame, cfg.categorical_variables)
        prefixed == SelectSeq(dropped, LAMBDA c :
                        \E cat \in Elems(cfg.categorical_variables) :
                            StartsWith(c.name, cat \o <<"_">>))
    IN  <<cfg.target_variable>> \o cfg.numerical_variables
        \o [i \in 1..Len(prefixed) |-> prefixed[i].name]

\* frame[names]: for every name, in order, the columns of the frame so called
RECURSIVE SelectColumns(_, _)
SelectColumns(frame, names) ==
    IF names = <<>> THEN <<>>
    ELSE SelectSeq(frame, LAMBDA c : c.name = names[1])
         \o SelectColumns(frame, Tail(names))

----------------------------------------------------------------------------
(* validate_prepared_data (data_preparation.py:172-231) *)

MissingValuesError == "Dataset contains missing values"
NonNumericError == "Non-numeric values found"
TargetError == "Target must be binary (0/1)"
ConstantError == "Constant columns found"

\* lines 178-179: df.isnull().sum().any()
HasMissing(frame) ==
    \E c \in 1..Len(frame) : \E i \in 1..Len(frame[c].vals) : IsNA(frame[c].vals[i])

\* lines 190-193: pd.to_numeric(df[col]) raises: a string that spells no
\* number, or a name that selects more than one column
ToNumericRaises(frame, c) ==
    \/ NameCount(frame, frame[c].name) > 1
    \/ \E i \in 1..Len(frame[c].vals) :
          frame[c].vals[i].k = "str" /\ ParseNumber(frame[c].vals[i].s) = NA

NonNumericColumns(frame) == {c \in 1..Len(frame) : ToNumericRaises(frame, c)}

\* line 204: set(unique_targets).issubset({0, 1})
TargetIsBinary(frame, target) ==
    \A v \in Unique(GetColumn(frame, target).vals) : v \in {Zero, One}

\* line 211: columns with df[col].nunique() == 1
ConstantColumns(frame) == {c \in 1..Len(frame) : NUnique(frame[c].vals) = 1}

\* mutant: the constant-column check runs first
ValidateConstantFirst(frame, target) ==
    IF ConstantColumns(frame) # {} THEN ConstantError
    ELSE IF HasMissing(frame) THEN MissingValuesError
    ELSE IF NonNumericColumns(frame) # {} THEN NonNumericError
    ELSE IF ~TargetIsBinary(frame, target) THEN TargetError
    ELSE "none"

\* lines 177-231: the message of the ValueError raised, "none" when all
\* checks pass (the correlation check of lines 218-229 only logs)
ValidationError(frame, target) ==
    IF HasMissing(frame) THEN MissingValuesError
    ELSE IF NonNumericColumns(frame) # {} THEN NonNumericError
    ELSE IF ~TargetIsBinary(frame, target) THEN TargetError
    ELSE IF ConstantColumns(frame) # {} THEN ConstantError
    ELSE "none"

\* data_preparation.py:162-166: validate_prepared_data(df_prep, config), return
ValidatePreparedData ==
    /\ prep_pc = "validate"
    /\ prep_error' = ValidationError(df_prep, config.target_variable)
    /\ prep_pc' = IF prep_error' = "none" THEN "returned" ELSE "error"
    /\ UNCHANGED <<raw, config, df_prep>>

----------------------------------------------------------------------------
(* prepare_analysis_data, one action per numbered step of the function *)

\* step 1, lines 35-69
PrepCategorical ==
    /\ prep_pc = "categorical"
    /\ df_prep' = ProcessCategorical(raw, <<>>, config, config.categorical_variables)
    /\ prep_pc' = "numerical"
    /\ UNCHANGED <<raw, config, prep_error>>

\* step 2, lines 71-116
PrepNumerical ==
    /\ prep_pc = "numerical"
    /\ IF \E col \in Elems(config.numerical_variables) : NameCount(df_prep, col) # 1
       THEN /\ prep_error' = "Failed to process column"
            /\ prep_pc' = "error"
            /\ df_prep' = df_prep
       ELSE /\ df_prep' = ProcessNumerical(df_prep, config, config.numerical_variables)
            /\ prep_pc' = "target"
            /\ prep_error' = prep_error
    /\ UNCHANGED <<raw, config>>

\* step 3, lines 118-141
PrepTarget ==
    /\ prep_pc = "target"
    /\ LET target == GetColumn(df_prep, config.target_variable)
       IN  IF Cardinality(Unique(target.vals)) > 2
           THEN /\ prep_error' = "Target variable must be binary"
                /\ prep_pc' = "error"
                /\ df_prep' = df_prep
           ELSE IF target.dtype = "object"
           THEN /\ df_prep' = SetColumn(df_prep, target.name,
                                  Column(target.name, "int64", MapTarget(target.vals)))
                /\ prep_pc' = "select"
                /\ prep_error' = prep_error
           ELSE IF ~NumericTargetIsBinary(target.vals)
           THEN /\ prep_error' = "Target values must be binary (0/1)"
                /\ prep_pc' = "error"
                /\ df_prep' = df_prep
           ELSE /\ prep_pc' = "select"
                /\ UNCHANGED <<df_prep, prep_error>>
    /\ UNCHANGED <<raw, config>>

\* mutant: only the unordered categorical columns are dropped, and the
\* rank-encoded columns are kept
PrepSelectKeepOrdered ==
    /\ prep_pc = "select"
    /\ LET unordered == SelectSeq(config.categorical_variables,
                                  LAMBDA v : ~Details(config, v).has_order)
           ordered == SelectSeq(config.categorical_variables,
                                LAMBDA v : Details(config, v).has_order)
       IN  df_prep' = SelectColumns(DropColumns(df_prep, unordered),
                                    KeepCols(df_prep, config) \o ordered)
    /\ prep_pc' = "validate"
    /\ UNCHANGED <<raw, config, prep_error>>

\* steps 4 and 5, lines 143-156
PrepSelect ==
    /\ prep_pc = "select"
    /\ df_prep' = SelectColumns(DropColumns(df_prep, config.categorical_variables),
                                KeepCols(df_prep, config))
    /\ prep_pc' = "validate"
    /\ UNCHANGED <<raw, config, prep_error>>

(* Inputs of the preparation *)

\* the cells of a column that repeats the given cells
Rows(cells) == [i \in 1..PrepRows |-> cells[((i - 1) % Len(cells)) + 1]]

TargetName == <<"y">>
RegionName == <<"region">>
RegionCodeName == <<"region", "_", "code">>

Yes == Str(<<"y", "e", "s">>)
No == Str(<<"n", "o">>)

TargetColumns ==
    {Column(TargetName, "object", Rows(<<Str(<<"1">>), Str(<<"0">>), Str(<<"1">>)>>)),
     Column(TargetName, "object", Rows(<<Yes, No, Yes>>)),
     Column(TargetName, "object", Rows(<<Str(<<"1">>), Str(<<"1">>), Str(<<"1">>)>>)),
     Column(TargetName, "object", Rows(<<Str(<<"1">>), Str(<<"0">>), NA>>)),
     Column(TargetName, "object", Rows(<<Str(<<"0">>), Str(<<"1">>), Str(<<"2">>)>>)),
     Column(TargetName, "object", Rows(<<Str(<<"Y">>), NA, Str(<<"Y">>)>>)),
     Column(TargetName, "int64", Rows(<<One, Zero, One>>)),
     Column(TargetName, "float64", Rows(<<One, NA, One>>)),
     Column(TargetName, "float64", Rows(<<Zero, One, NA>>)),
     Column(TargetName, "int64", Rows(<<Zero, Num(2, 1), Zero>>))}

AgeCells ==
    {<<Str(<<"1", "0">>), Str(<<"3", "0">>), Str(<<"5", "0">>)>>,
     <<Str(<<"$", "1", "0">>), NA, Str(<<"5", "0">>)>>,
     <<Str(<<"5">>), Str(<<"5">>), Str(<<"5">>)>>,
     <<Str(<<"a", "b", "c">>), NA, Str(<<"x">>)>>,
     <<Str(<<"1", "-", "2">>), Str(<<"3", ".", "5">>), Str(<<"-", "4">>)>>}

RegionCells ==
    {<<Str(<<"e">>), Str(<<"w">>), Str(<<"e">>)>>,
     <<Str(<<"e">>), NA, Str(<<"w">>)>>,
     <<Str(<<"e">>), Str(<<"e">>), Str(<<"e">>)>>}

RegionCodeCells ==
    {<<Str(<<"1", "2">>), Str(<<"1", "5">>), Str(<<"1", "2">>)>>,
     <<Str(<<"a">>), Str(<<"b">>), Str(<<"a">>)>>,
     <<Str(<<"1", "2">>), NA, Str(<<"1", "5">>)>>,
     <<Str(<<"7">>), Str(<<"7">>), Str(<<"7">>)>>}

\* the orders the configure page can yield: a selection of the observed values
RegionOrders == {<<<<"e">>, <<"w">>>>, <<<<"w">>>>}

\* how a raw column is declared in the configuration
Declarations == {"undeclared", "declared"}

\* the configuration the configure page builds (2_configure.py:194-200)
MakeConfig(ageDecl, direction, regionDecl, ordered, order, hasCode, codeDecl) ==
    [target_variable |-> TargetName,
     categorical_variables |-> IF regionDecl = "declared" THEN <<RegionName>> ELSE <<>>,
     numerical_variables |->
         (IF ageDecl = "declared" THEN <<AgeName>> ELSE <<>>)
         \o (IF hasCode /\ codeDecl = "declared" THEN <<RegionCodeName>> ELSE <<>>),
     variable_details |->
         [v \in (IF ageDecl = "declared" THEN {AgeName} ELSE {})
                \cup (IF regionDecl = "declared" THEN {RegionName} ELSE {})
                \cup (IF hasCode /\ codeDecl = "declared" THEN {RegionCodeName} ELSE {})
          |-> IF v = RegionName
              THEN [type |-> "categorical", has_order |-> ordered,
                    value_order |-> IF ordered THEN order ELSE <<>>,
                    direction |-> ""]
              ELSE [type |-> "numerical", has_order |-> FALSE, value_order |-> <<>>,
                    direction |-> IF v = AgeName THEN direction ELSE HigherIsBetter]]]

PrepInit ==
    /\ UploadIdle
    /\ RetryIdle
    /\ RunIdle
    /\ ScoreIdle
    /\ DecIdle
    /\ JobsIdle
    /\ GenIdle
    /\ prep_pc = "categorical"
    /\ \E t \in TargetColumns, a \in AgeCells, r \in RegionCells,
          hasCode \in BOOLEAN, c \in RegionCodeCells,
          ageDecl \in Declarations, direction \in {HigherIsBetter, LowerIsBetter},
          regionDecl \in Declarations, ordered \in BOOLEAN, order \in RegionOrders,
          codeDecl \in Declarations :
          /\ raw = <<t, Column(AgeName, "object", Rows(a)),
                     Column(RegionName, "object", Rows(r))>>
                   \o (IF hasCode THEN <<Column(RegionCodeName, "object", Rows(c))>>
                       ELSE <<>>)
          /\ config = MakeConfig(ageDecl, direction, regionDecl, ordered, order, hasCode, codeDecl)
    /\ df_prep = <<>>
    /\ prep_error = "none"

PrepNext == PrepCategorical \/ PrepNumerical \/ PrepTarget \/ PrepSelect
            \/ ValidatePreparedData

SpecPrep == PrepInit /\ [][PrepNext /\ UNCHANGED <<runVars, scoreVars, decVars, jobVars, genVars, uploadVars, retryVars>>]_vars

(* validate_prepared_data called on a dataset of its own *)

ValidTargetCells ==
    {<<One, Zero, One>>,
     <<Zero, Num(2, 1), Zero>>,
     <<One, One, One>>,
     <<One, NA, Zero>>,
     <<Num(2, 1), Num(2, 1), Num(2, 1)>>}

ValidFeatureCells ==
    {<<Zero, Num(1, 2), One>>,
     <<One, One, One>>,
     <<Zero, NA, One>>,
     <<One, NA, One>>,
     <<Str(<<"a">>), Str(<<"b">>), Str(<<"a">>)>>,
     <<Str(<<"1", "2">>), Str(<<"1", "5">>), Str(<<"1", "2">>)>>}

\* the dtype pandas gives a column of these cells
DtypeOf(cells) ==
    IF \E i \in 1..Len(cells) : cells[i].k = "str" THEN "object" ELSE "float64"

ValidateInit ==
    /\ UploadIdle
    /\ RetryIdle
    /\ RunIdle
    /\ ScoreIdle
    /\ DecIdle
    /\ JobsIdle
    /\ GenIdle
    /\ prep_pc = "validate"
    /\ raw = <<>>
    /\ config = [target_variable |-> TargetName, categorical_variables |-> <<>>,
                 numerical_variables |-> <<AgeName, EastName>>,
                 variable_details |-> <<>>]
    /\ \E t \in ValidTargetCells, a \in ValidFeatureCells, e \in ValidFeatureCells :
          df_prep = <<Column(TargetName, DtypeOf(t), Rows(t)),
                      Column(AgeName, DtypeOf(a), Rows(a)),
                      Column(EastName, DtypeOf(e), Rows(e))>>
    /\ prep_error = "none"

SpecValidate ==
    ValidateInit /\ [][ValidatePreparedData /\ UNCHANGED <<runVars, scoreVars, decVars, jobVars, genVars, uploadVars, retryVars>>]_vars

----------------------------------------------------------------------------
(* Properties of the preparation and of its validator *)

\* a column of a numeric dtype whose cells are all numbers or NaN
IsNumericColumn(col) ==
    /\ col.dtype \in {"int64", "float64"}
    /\ \A i \in 1..Len(col.vals) : col.vals[i].k # "str"

Returned == prep_pc = "returned"

\* C6: every dataset prepare_analysis_data returns has no missing cell, only
\* numeric columns, a target whose values lie in {0, 1}, and no column with a
\* single distinct value.
C6_PreparedDatasetInvariant ==
    Returned =>
        /\ ~HasMissing(df_prep)
        /\ \A c \in 1..Len(df_prep) : IsNumericColumn(df_prep[c])
        /\ TargetIsBinary(df_prep, config.target_variable)
        /\ ConstantColumns(df_prep) = {}

\* the messages of all the checks the dataset fails
Violations(frame, target) ==
    (IF HasMissing(frame) THEN {MissingValuesError} ELSE {})
    \cup (IF NonNumericColumns(frame) # {} THEN {NonNumericError} ELSE {})
    \cup (IF ~TargetIsBinary(frame, target) THEN {TargetError} ELSE {})
    \cup (IF ConstantColumns(frame) # {} THEN {ConstantError} ELSE {})

ValidatorMessages == {MissingValuesError, NonNumericError, TargetError, ConstantError}

ValidatorFailed == prep_pc = "error" /\ prep_error \in ValidatorMessages

\* what the raised ValueError reports: its one message
Reported == {prep_error}

\* C7 (as stated): a dataset that fails several checks at once has every
\* violation reported by the validation failure.
C7_ReportsEveryViolation ==
    ValidatorFailed => Reported = Violations(df_prep, config.target_variable)

CheckOrder == <<MissingValuesError, NonNumericError, TargetError, ConstantError>>

\* C7 (amended): the validation failure reports exactly one violation, the one
\* of the first failing check in the order missing values, non-numeric
\* columns, target, constant columns; and the validator fails exactly when
\* some check is violated.
C7_ReportsFirstViolation ==
    LET V == Violations(df_prep, config.target_variable)
    IN  /\ ValidatorFailed =>
              \E k \in 1..Len(CheckOrder) :
                  /\ prep_error = CheckOrder[k]
                  /\ CheckOrder[k] \in V
                  /\ \A j \in 1..(k - 1) : CheckOrder[j] \notin V
        /\ Returned => V = {}

\* a dataset with missing cells, a non-binary target and a constant column
\* has been rejected
C7_Witness ==
    /\ ValidatorFailed
    /\ {MissingValuesError, TargetError, ConstantError}
           \subseteq Violations(df_prep, config.target_variable)

----------------------------------------------------------------------------
(* The decile analysis of run_analysis (analysis.py:282-300).  A predicted  *)
(* probability is held as a whole number of hundredths, a bin edge as ten   *)
(* times its value, so that the interpolation of the quantiles is exact.    *)

RECURSIVE SeqSum(_)
SeqSum(s) == IF s = <<>> THEN 0 ELSE s[1] + SeqSum(Tail(s))

\* the k-th smallest of the values xs (k from 1)
KthSmallest(xs, k) ==
    CHOOSE v \in Elems(xs) :
        /\ Cardinality({i \in 1..Len(xs) : xs[i] < v}) < k
        /\ k <= Cardinality({i \in 1..Len(xs) : xs[i] <= v})

\* pd.qcut(x, q=10), line 289: ten times the k-th of the eleven edges
\* x.quantile(k/10), interpolated linearly between the two neighbouring
\* order statistics at position k*(n-1)/10
Edge10(xs, k) ==
    LET pos == k * (Len(xs) - 1)
        f == pos \div NumDeciles
        r == pos % NumDeciles
        lo == KthSmallest(xs, f + 1)
        hi == IF r = 0 THEN lo ELSE KthSmallest(xs, f + 2)
    IN  NumDeciles * lo + r * (hi - lo)

\* qcut refuses edges that are not unique (duplicates="raise" is the default)
EdgesUnique(xs) ==
    \A k \in 1..NumDeciles : Edge10(xs, k - 1) < Edge10(xs, k)

\* the bin of a value: intervals closed on the right, the first one also
\* closed on the left (include_lowest)
BinOf(xs, x) ==
    CHOOSE k \in 1..NumDeciles :
        /\ NumDeciles * x <= Edge10(xs, k)
        /\ \A j \in 1..(k - 1) : NumDeciles * x > Edge10(xs, j)

\* line 289
Qcut ==
    /\ dec_pc = "qcut"
    /\ IF EdgesUnique(regression_scores)
       THEN /\ deciles' = [i \in 1..Len(regression_scores) |->
                              BinOf(regression_scores, regression_scores[i])]
            /\ dec_pc' = "response_rates"
            /\ dec_error' = dec_error
       ELSE /\ dec_error' = "Bin edges must be unique"
            /\ dec_pc' = "error"
            /\ deciles' = deciles
    /\ UNCHANGED <<regression_scores, y_values, response_rates>>

\* deciles.unique(), line 293: the labels in the order of their first row
RECURSIVE AppearanceOrder(_)
AppearanceOrder(s) ==
    IF s = <<>> THEN <<>>
    ELSE LET front == AppearanceOrder(SubSeq(s, 1, Len(s) - 1))
             last == s[Len(s)]
         IN  IF last \in Elems(front) THEN front ELSE Append(front, last)

\* the rows of bin k
RowsOfBin(k) == {i \in 1..Len(deciles) : deciles[i] = k}

\* groupby(deciles).count() and .mean() of y for one bin (lines 294-295)
GroupCount(k) == Cardinality(RowsOfBin(k))
GroupPositives(k) == Cardinality({i \in RowsOfBin(k) : y_values[i] = 1})
GroupMean(k) ==
    IF GroupCount(k) = 0 THEN NA ELSE Frac(GroupPositives(k), GroupCount(k))

\* the index of the groupby results, in category order: every category
\* (observed=False) or only the categories that have rows (observed=True)
GroupIndex(observed) ==
    SelectSeq([k \in 1..NumDeciles |-> k],
              LAMBDA k : ~observed \/ GroupCount(k) > 0)

\* lines 292-296: the DataFrame puts the array of labels next to the two
\* groupby results position by position, and refuses an array whose length
\* differs from that of the index.  The default of observed depends on the
\* installed pandas, which the repository does not pin.
ResponseRates ==
    /\ dec_pc = "response_rates"
    /\ \E observed \in BOOLEAN :
          LET labels == AppearanceOrder(deciles)
              index == GroupIndex(observed)
          IN  IF Len(labels) # Len(index)
              THEN /\ dec_error' = "array length does not match index length"
                   /\ dec_pc' = "error"
                   /\ response_rates' = response_rates
              ELSE /\ response_rates' =
                          [j \in 1..Len(index) |->
                              [decile |-> labels[j],
                               count |-> GroupCount(index[j]),
                               response_rate |-> GroupMean(index[j]),
                               lift |-> NA]]
                   /\ dec_pc' = "lift"
                   /\ dec_error' = dec_error
    /\ UNCHANGED <<regression_scores, y_values, deciles>>

\* line 299: y.mean()
BaselineRate == Frac(SeqSum(y_values), Len(y_values))

\* line 300: response_rate / baseline_rate (NaN for 0/0 and for NaN)
Lift ==
    /\ dec_pc = "lift"
    /\ response_rates' =
          [j \in 1..Len(response_rates) |->
              [response_rates[j] EXCEPT !.lift =
                  IF IsNA(response_rates[j].response_rate) \/ BaselineRate = Zero
                  THEN NA
                  ELSE RDiv(response_rates[j].response_rate, BaselineRate)]]
    /\ dec_pc' = "done"
    /\ UNCHANGED <<regression_scores, y_values, deciles, dec_error>>

(* Inputs of the decile analysis *)

\* the sorted probabilities that rise by one hundredth exactly at the
\* positions of S
Profile(S) ==
    [i \in 1..DecileRows |-> 1 + Cardinality({j \in S : j <= i})]

RowOrders == {"ascending", "descending", "rotated"}

\* the place in the sorted profile of the row at position i
PlaceOf(order, i) ==
    CASE order = "ascending" -> i
      [] order = "descending" -> DecileRows + 1 - i
      [] order = "rotated" -> ((i - 1 + DecileRows \div 2) % DecileRows) + 1

TargetPatterns == {"none", "alternate", "top"}

\* the target of the row at a place of the sorted profile
TargetAt(pattern, place) ==
    CASE pattern = "none" -> 0
      [] pattern = "alternate" -> place % 2
      [] pattern = "top" -> IF 2 * place > DecileRows THEN 1 ELSE 0

DecInit ==
    /\ UploadIdle
    /\ RetryIdle
    /\ JobsIdle
    /\ GenIdle
    /\ RunIdle
    /\ ScoreIdle
    /\ PrepIdle
    /\ dec_pc = "qcut"
    /\ \E S \in SUBSET (2..DecileRows), order \in RowOrders,
          pattern \in TargetPatterns :
          /\ regression_scores =
                 [i \in 1..DecileRows |-> Profile(S)[PlaceOf(order, i)]]
          /\ y_values = [i \in 1..DecileRows |-> TargetAt(pattern, PlaceOf(order, i))]
    /\ deciles = <<>>
    /\ response_rates = <<>>
    /\ dec_error = "none"

DecNext == Qcut \/ ResponseRates \/ Lift

SpecDecile == DecInit /\ [][DecNext /\ UNCHANGED <<runVars, scoreVars, prepVars, jobVars, genVars, uploadVars, retryVars>>]_vars

----------------------------------------------------------------------------
(* Properties of the decile analysis *)

DecileFinished == dec_pc \in {"done", "error"}

\* the positives of a record: its response rate times its count
RecordPositives(r) ==
    IF IsNA(r.response_rate) THEN 0
    ELSE (r.response_rate.n * r.count) \div r.response_rate.d

\* C9: for every input of targets and predicted probabilities, tied
\* probabilities included, the decile analysis returns exactly ten groups
\* whose counts sum to the number of rows and whose positives sum to the
\* number of positives.
C9_TenGroups ==
    DecileFinished =>
        /\ dec_pc = "done"
        /\ Len(response_rates) = NumDeciles
        /\ SeqSum([j \in 1..Len(response_rates) |-> response_rates[j].count])
               = Len(y_values)
        /\ SeqSum([j \in 1..Len(response_rates) |->
                      RecordPositives(response_rates[j])])
               = SeqSum(y_values)

\* C10: the record labelled Dk carries the count and the response rate of
\* the rows qcut assigned to bin k, whatever the order of the rows.
C10_LabelMatchesBin ==
    dec_pc = "done" =>
        \A j \in 1..Len(response_rates) :
            /\ response_rates[j].count = GroupCount(response_rates[j].decile)
            /\ response_rates[j].response_rate = GroupMean(response_rates[j].decile)

----------------------------------------------------------------------------
(* Progress reporting of run_analysis *)

Milestones == <<0, 10, 30, 50, 70, 100>>

StrictlyIncreasing(s) == \A i \in 1..(Len(s) - 1) : s[i] < s[i + 1]

\* C11: the percentages delivered to the progress callback are strictly
\* increasing and each is one of 0, 10, 30, 50, 70, 100; a failed run has
\* delivered a prefix of that sequence and a successful run all of it.
C11_ProgressMilestones ==
    /\ StrictlyIncreasing(progress)
    /\ IsPrefix(progress, Milestones)
    /\ ~inp.callback => progress = <<>>
    /\ (Succeeded /\ inp.callback) => progress = Milestones

\* a run with a callback has failed after its third milestone
C11_Witness ==
    /\ Failed
    /\ inp.callback
    /\ progress = <<0, 10, 30>>

----------------------------------------------------------------------------
(* Several browser sessions that upload a file and start analyses on the    *)
(* same database (1_upload.py, validation.py, 2_configure.py, analysis.py). *)

Sessions == 1..MaxSessions

NoTable == [schema |-> "", prefix |-> "", stamp |-> 0]

NewSession ==
    [pc |-> "upload", timestamp |-> 0, table_name |-> NoTable, nrun |-> 0,
     job_id |-> 0, loaded |-> 0]

\* validation.py:52 and 160: the table of an upload, "RAW_DATA.UPLOAD_<timestamp>"
TableName(timestamp) ==
    [schema |-> "RAW_DATA.", prefix |-> "UPLOAD_", stamp |-> timestamp]

\* analysis.py:140: source_table.replace('RAW_DATA.UPLOAD_', '')
JobIdOf(source_table) == source_table.stamp

\* a second passes
Tick ==
    /\ now < MaxClock
    /\ now' = now + 1
    /\ UNCHANGED <<raw_tables, sessions, job_rows, artifact_rows>>

\* 1_upload.py:110-119 and validate_data: the timestamp is the wall clock to
\* the second (strftime("%Y%m%d_%H%M%S")); CREATE OR REPLACE TABLE, the
\* UPLOADED job record, commit
Upload(s) ==
    /\ sessions[s].pc = "upload"
    /\ raw_tables' = [raw_tables EXCEPT ![now] = s]
    /\ job_rows' = Append(job_rows, [job_id |-> now, status |-> "UPLOADED",
                                     session |-> s, run |-> 0])
    /\ sessions' = [sessions EXCEPT ![s] =
                       [@ EXCEPT !.pc = "configure", !.timestamp = now,
                                 !.table_name = TableName(now)]]
    /\ UNCHANGED <<now, artifact_rows>>

\* 2_configure.py:186-208 and analysis.py:135-140: "Start Analysis" calls
\* run_analysis with the session's table; the job id is taken from its name
StartAnalysis(s) ==
    /\ sessions[s].pc = "configure"
    /\ sessions[s].nrun < MaxRuns
    /\ sessions' = [sessions EXCEPT ![s] =
                       [@ EXCEPT !.pc = "load", !.nrun = @ + 1,
                                 !.job_id = JobIdOf(sessions[s].table_name)]]
    /\ UNCHANGED <<now, raw_tables, job_rows, artifact_rows>>

\* analysis.py:151-165: SELECT * FROM the source table
RunLoads(s) ==
    /\ sessions[s].pc = "load"
    /\ sessions' = [sessions EXCEPT ![s] =
                       [@ EXCEPT !.pc = "save",
                                 !.loaded = raw_tables[sessions[s].table_name.stamp]]]
    /\ UNCHANGED <<now, raw_tables, job_rows, artifact_rows>>

\* analysis.py:229-324: the RUNNING job record, the artifact rows, and the
\* UPDATE to COMPLETED of every job record of that job id
RunSaves(s) ==
    /\ sessions[s].pc = "save"
    /\ LET id == sessions[s].job_id
           inserted == Append(job_rows, [job_id |-> id, status |-> "RUNNING",
                                         session |-> s, run |-> sessions[s].nrun])
       IN  /\ job_rows' = [i \in 1..Len(inserted) |->
                              IF inserted[i].job_id = id
                              THEN [inserted[i] EXCEPT !.status = "COMPLETED"]
                              ELSE inserted[i]]
           /\ artifact_rows' = artifact_rows \cup
                  {[job_id |-> id, session |-> s, run |-> sessions[s].nrun]}
    /\ sessions' = [sessions EXCEPT ![s] = [@ EXCEPT !.pc = "configure"]]
    /\ UNCHANGED <<now, raw_tables>>

JobsInit ==
    /\ UploadIdle
    /\ RetryIdle
    /\ RunIdle
    /\ ScoreIdle
    /\ PrepIdle
    /\ DecIdle
    /\ GenIdle
    /\ now = 0
    /\ raw_tables = [t \in 0..MaxClock |-> 0]
    /\ sessions = [s \in Sessions |-> NewSession]
    /\ job_rows = <<>>
    /\ artifact_rows = {}

JobsNext ==
    \/ Tick
    \/ \E s \in Sessions : Upload(s)
    \/ \E s \in Sessions : StartAnalysis(s)
    \/ \E s \in Sessions : RunLoads(s)
    \/ \E s \in Sessions : RunSaves(s)

SpecJobs == JobsInit /\ [][JobsNext /\ UNCHANGED <<runVars, scoreVars, prepVars, decVars, genVars, uploadVars, retryVars>>]_vars

\* the rows a run has written: its RUNNING job record and its artifact rows
RunRows ==
    artifact_rows \cup
    {[job_id |-> job_rows[i].job_id, session |-> job_rows[i].session,
      run |-> job_rows[i].run] : i \in {j \in 1..Len(job_rows) : job_rows[j].run > 0}}

\* C12: no row written by one run shares its job id with a row written by
\* another run, and no run reads a source table that holds the data of
\* another session's upload.
C12_RunsDisjoint ==
    /\ \A a \in RunRows, b \in RunRows :
          a.job_id = b.job_id => (a.session = b.session /\ a.run = b.run)
    /\ \A s \in Sessions : sessions[s].loaded \in {0, s}

----------------------------------------------------------------------------
(* Properties of the numerical transformation *)

\* step 2 of prepare_analysis_data has transformed the numerical columns
Transformed ==
    \/ prep_pc \in {"target", "select", "validate", "returned"}
    \/ prep_pc = "error" /\ prep_error # "Failed to process column"

\* the transformed columns of the declared numerical variables
NumericalColumns ==
    {c \in 1..Len(df_prep) : df_prep[c].name \in Elems(config.numerical_variables)}

InUnitInterval(v) == IsNum(v) /\ ~RLess(v, Zero) /\ ~RLess(One, v)

AllInUnitInterval(vals) == \A i \in 1..Len(vals) : InUnitInterval(vals[i])

\* min = max: one number in every row
Degenerate(vals) == \A i \in 1..Len(vals) : IsNum(vals[i]) /\ vals[i] = vals[1]

AllMissing(vals) == \A i \in 1..Len(vals) : IsNA(vals[i])

\* C13 (as stated): after transformation every declared numerical column has
\* all its values in [0,1], unless it is degenerate (min = max), in which case
\* its constant is kept and the dataset is not returned.
C13_ScaledOrDegenerate ==
    Transformed =>
        \A c \in NumericalColumns :
            \/ AllInUnitInterval(df_prep[c].vals)
            \/ Degenerate(df_prep[c].vals) /\ ~Returned

\* C13 (amended): as stated, with a third case: a column without any
\* parseable number stays entirely missing, and the dataset is not returned.
C13_ScaledDegenerateOrMissing ==
    Transformed =>
        \A c \in NumericalColumns :
            \/ AllInUnitInterval(df_prep[c].vals)
            \/ Degenerate(df_prep[c].vals) /\ ~Returned
            \/ AllMissing(df_prep[c].vals) /\ ~Returned

\* the validator has rejected a dataset for a declared numerical column that
\* kept a constant outside [0,1]
C13_Witness ==
    /\ prep_pc = "error"
    /\ prep_error = ConstantError
    /\ \E c \in NumericalColumns :
          /\ Degenerate(df_prep[c].vals)
          /\ ~AllInUnitInterval(df_prep[c].vals)

----------------------------------------------------------------------------
(* Rules on columns the scored dataset lacks *)

\* a non-base rule whose variable is no column of the dataset
AbsentRule(frame, rule) ==
    rule.variable # BaseName /\ ~HasColumn(frame, rule.variable)

\* the rule set with those rules removed
WithoutAbsent(frame, rs) == SelectSeq(rs, LAMBDA r : ~AbsentRule(frame, r))

\* the loop is about to handle such a rule
AtAbsentRule ==
    /\ score_pc = "loop"
    /\ rule_idx <= Len(rules)
    /\ AbsentRule(df, rules[rule_idx])

\* C14: a non-base rule on a column the dataset lacks is skipped: the
\* iteration raises nothing and leaves the scores as they are, and the
\* scores returned are those of the rule set without such rules.
C14_AbsentColumnSkipped ==
    /\ [][AtAbsentRule =>
             (scores' = scores /\ rule_idx' = rule_idx + 1 /\ score_pc' = "loop")]_vars
    /\ [](score_pc = "done" =>
             \A i \in 1..NumRows(df) :
                scores[i] = BaseRule(WithoutAbsent(df, rules)).adjustment
                            + SumMatching(df, WithoutAbsent(df, rules), i))

\* scores were returned for a rule set with a rule on an absent column and a
\* rule that matched some row
C14_Witness ==
    /\ score_pc = "done"
    /\ \E j \in 1..Len(rules) : AbsentRule(df, rules[j])
    /\ \E i \in 1..NumRows(df) : scores[i] # BaseRule(rules).adjustment

----------------------------------------------------------------------------
(* generate_scoring_rules (scoring.py:5-104).  A coefficient is held as a   *)
(* whole number of ten-thousandths.                                         *)

\* int(n / d): truncation towards zero
Trunc(n, d) == IF n >= 0 THEN n \div d ELSE -((-n) \div d)

\* round(n / d): the nearest integer
Round(n, d) == IF n >= 0 THEN (2 * n + d) \div (2 * d) ELSE -((2 * (-n) + d) \div (2 * d))

HasSeparator(name) == \E i \in 1..Len(name) : name[i] = "_"

\* line 45: feature_name.split('_')[0]
VarBase(name) ==
    IF HasSeparator(name)
    THEN SubSeq(name, 1, (CHOOSE i \in 1..Len(name) :
                             name[i] = "_" /\ \A j \in 1..(i - 1) : name[j] # "_") - 1)
    ELSE name

NoRange == [kind |-> "absent", min |-> NA, max |-> NA]

\* lines 46-47: config['variable_details'].get(var_base, {}) and its type,
\* 'categorical' when the variable is not configured
VarConfig(cfg, var_base) ==
    IF var_base \in DOMAIN cfg.variable_details
    THEN cfg.variable_details[var_base]
    ELSE [type |-> "categorical", range |-> NoRange]

\* line 50: int(coefficient * scale_factor)
Adjustment(coefficient) == Trunc(coefficient * ScaleFactor, CoefUnit)

\* lines 55-57: the range from the config, else from the data
RangeMin(var_config, col) ==
    IF var_config.range.kind = "dict" THEN var_config.range.min ELSE ColMin(col.vals)
RangeMax(var_config, col) ==
    IF var_config.range.kind = "dict" THEN var_config.range.max ELSE ColMax(col.vals)

\* lines 60 and 72: min_val + share/10 * (max_val - min_val)
Threshold(min_val, max_val, share) ==
    RAdd(min_val, Frac(share * RSub(max_val, min_val).n, 10 * RSub(max_val, min_val).d))

\* lines 59-81: the two threshold rules of a numerical feature
ThresholdRules(name, var_config, col, adjustment) ==
    LET min_val == RangeMin(var_config, col)
        max_val == RangeMax(var_config, col)
    IN  <<Rule(name, ">", Threshold(min_val, max_val, 7), Trunc(adjustment * 7, 10)),
          Rule(name, ">", Threshold(min_val, max_val, 3), Trunc(adjustment * 3, 10))>>

\* mutant: no base rule is emitted
GenStartNoBase ==
    /\ gen_pc = "start"
    /\ gen_rules' = <<>>
    /\ feature_idx' = 1
    /\ gen_pc' = "loop"
    /\ UNCHANGED <<gen_in, gen_error>>

\* lines 29-34: the base rule
GenStart ==
    /\ gen_pc = "start"
    /\ gen_rules' = <<Rule(BaseName, "always", NA, BaseScore)>>
    /\ feature_idx' = 1
    /\ gen_pc' = "loop"
    /\ UNCHANGED <<gen_in, gen_error>>

\* lines 37-102: one iteration of the loop over the features
GenFeature ==
    /\ gen_pc = "loop"
    /\ feature_idx <= Len(gen_in.feature_names)
    /\ LET feature_name == gen_in.feature_names[feature_idx]
           coefficient == gen_in.model_coefficients[feature_idx]
           var_config == VarConfig(gen_in.config, VarBase(feature_name))
           col == GetColumn(gen_in.df, feature_name)
           adjustment == Adjustment(coefficient)
       IN  IF Abs(coefficient) < WeakEffect
           THEN /\ feature_idx' = feature_idx + 1
                /\ UNCHANGED <<gen_pc, gen_rules, gen_error>>
           ELSE IF var_config.type = "numerical"
           THEN IF Present(col.vals) = {}
                THEN /\ feature_idx' = feature_idx + 1
                     /\ UNCHANGED <<gen_pc, gen_rules, gen_error>>
                ELSE IF var_config.range.kind = "list"
                THEN \* line 56: var_range.get on a list
                     /\ gen_error' = "AttributeError"
                     /\ gen_pc' = "error"
                     /\ UNCHANGED <<feature_idx, gen_rules>>
                ELSE /\ gen_rules' = gen_rules
                                      \o ThresholdRules(feature_name, var_config, col, adjustment)
                     /\ feature_idx' = feature_idx + 1
                     /\ UNCHANGED <<gen_pc, gen_error>>
           ELSE \* lines 85-102: both branches append a 'present' rule
                /\ gen_rules' = Append(gen_rules,
                                   Rule(feature_name, "present", NA, adjustment))
                /\ feature_idx' = feature_idx + 1
                /\ UNCHANGED <<gen_pc, gen_error>>
    /\ UNCHANGED gen_in

\* line 104: return rules
GenReturn ==
    /\ gen_pc = "loop"
    /\ feature_idx > Len(gen_in.feature_names)
    /\ gen_pc' = "done"
    /\ UNCHANGED <<gen_in, feature_idx, gen_rules, gen_error>>

(* Inputs of the rule generation *)

IncomeName == <<"household", "_", "income">>
AgeGroupName == <<"age", "_", "group">>
YoungName == <<"age", "_", "group", "_", "young">>

\* the features of a prepared dataset: two numerical variables, an indicator
\* of the categorical region, an indicator of the categorical age_group, and
\* a column named BASE
FeatureUniverse == {AgeName, IncomeName, EastName, YoungName, BaseName}

NumericalNames == {AgeName, IncomeName}

\* 0.0095, 0.01, 0.5, 0.2996 and -0.2996
Coefficients == {95, 100, 5000, 2996, -2996}

\* how the config holds the observed range of a numerical variable: the list
\* [min, max] that 2_configure.py:49 and 59-63 store, a dict with the keys
\* 'min' and 'max', or not at all
RangeKinds == {"list", "dict", "absent"}

\* the observed range of a numerical variable, in original units
ObservedRange(kind) == [kind |-> kind, min |-> Num(18, 1), max |-> Num(90, 1)]

GenConfig(kind) ==
    [variable_details |->
        [v \in NumericalNames \cup {RegionName, AgeGroupName} |->
            IF v \in NumericalNames
            THEN [type |-> "numerical", range |-> ObservedRange(kind)]
            ELSE [type |-> "categorical", range |-> NoRange]]]

\* the column of a feature in the prepared dataset: scaled to [0,1], or 0/1
GenColumn(name) ==
    IF name \in NumericalNames
    THEN Column(name, "float64", <<Zero, Num(1, 2), One>>)
    ELSE Column(name, "float64", <<One, Zero, One>>)

\* the lists of at most MaxGenFeatures different features
FeatureLists ==
    {fs \in UNION {[1..n -> FeatureUniverse] : n \in 1..MaxGenFeatures} :
        \A i \in 1..Len(fs), j \in 1..Len(fs) : i # j => fs[i] # fs[j]}

GenInit ==
    /\ UploadIdle
    /\ RetryIdle
    /\ RunIdle
    /\ ScoreIdle
    /\ PrepIdle
    /\ DecIdle
    /\ JobsIdle
    /\ gen_pc = "start"
    /\ \E fs \in FeatureLists, kind \in RangeKinds :
          \E cs \in [1..Len(fs) -> Coefficients] :
             gen_in = [df |-> [i \in 1..Len(fs) |-> GenColumn(fs[i])],
                       model_coefficients |-> cs,
                       feature_names |-> fs,
                       config |-> GenConfig(kind)]
    /\ feature_idx = 0
    /\ gen_rules = <<>>
    /\ gen_error = "none"

GenNext == GenStart \/ GenFeature \/ GenReturn

SpecRules == GenInit /\ [][GenNext /\ UNCHANGED <<runVars, scoreVars, prepVars, decVars, jobVars, uploadVars, retryVars>>]_vars

----------------------------------------------------------------------------
(* Properties of generate_scoring_rules *)

GenFinished == gen_pc \in {"done", "error"}

\* the rules after the first one
LaterRules == SubSeq(gen_rules, 2, Len(gen_rules))

\* the rules of a feature, in the order of the rule set
RulesOf(name) == SelectSeq(LaterRules, LAMBDA r : r.variable = name)

\* the features the loop does not skip as weak
StrongFeatures ==
    {i \in 1..Len(gen_in.feature_names) : Abs(gen_in.model_coefficients[i]) >= WeakEffect}

StartsWithBase ==
    /\ Len(gen_rules) >= 1
    /\ gen_rules[1] = Rule(BaseName, "always", NA, BaseScore)

ExpectedThresholdRules(name, min_val, max_val, adjustment) ==
    <<Rule(name, ">", Threshold(min_val, max_val, 7), Trunc(adjustment * 7, 10)),
      Rule(name, ">", Threshold(min_val, max_val, 3), Trunc(adjustment * 3, 10))>>

\* C16: for every feature of a declared numerical variable with
\* |coefficient| >= 0.01, whatever its name, the generation ends normally and
\* the rule set holds exactly two threshold rules for it: the one above
\* min + 0.7 (max - min) with 70% of the adjustment, then the one above
\* min + 0.3 (max - min) with 30% of it, over the range of the data or the
\* range of the config.
C16_TwoThresholdRules ==
    GenFinished =>
        \A i \in StrongFeatures :
            LET name == gen_in.feature_names[i]
                adjustment == Adjustment(gen_in.model_coefficients[i])
                col == GetColumn(gen_in.df, name)
            IN  name \in NumericalNames =>
                    /\ gen_pc = "done"
                    /\ \/ RulesOf(name) = ExpectedThresholdRules(
                               name, ColMin(col.vals), ColMax(col.vals), adjustment)
                       \/ RulesOf(name) = ExpectedThresholdRules(
                               name, ObservedRange("dict").min,
                               ObservedRange("dict").max, adjustment)

\* C17: the generation of threshold rules ends normally, also when the
\* config records an observed range, and every threshold lies in [0,1], the
\* units of the prepared column.
C17_ThresholdsInUnitInterval ==
    GenFinished =>
        /\ gen_error = "none"
        /\ \A j \in 1..Len(LaterRules) :
              LaterRules[j].condition = ">" => InUnitInterval(LaterRules[j].threshold)

OneHotNames == {EastName, YoungName}

\* C18: every one-hot indicator feature with |coefficient| >= 0.01 gets
\* exactly one 'present' rule, whose adjustment is round(coefficient * 1000).
C18_PresentRuleRounded ==
    gen_pc = "done" =>
        \A i \in StrongFeatures :
            LET name == gen_in.feature_names[i]
            IN  name \in OneHotNames =>
                    RulesOf(name) =
                        <<Rule(name, "present", NA,
                               Round(gen_in.model_coefficients[i] * ScaleFactor, CoefUnit))>>

----------------------------------------------------------------------------
(* The 'present' rules of apply_scoring_rules *)

\* every number of the column is 0 or 1
ZeroOneValued(col) ==
    \A i \in 1..Len(col.vals) : IsNum(col.vals[i]) => col.vals[i] \in {Zero, One}

\* the rows a 'present' rule is to match: the rows equal to 1 of a 0/1-valued
\* column, the non-missing rows of any other column
PresentRows(col) ==
    [i \in 1..Len(col.vals) |->
        IF ZeroOneValued(col) THEN IsOne(col.vals[i]) ELSE ~IsNA(col.vals[i])]

AtPresentRule ==
    /\ score_pc = "loop"
    /\ rule_idx <= Len(rules)
    /\ Applies(df, rules[rule_idx])
    /\ rules[rule_idx].condition = "present"

\* C19: a 'present' rule adds its adjustment to exactly the rows equal to 1
\* when the column is 0/1-valued, and to exactly the non-missing rows when
\* the column is not 0/1-valued.
C19_PresentRows ==
    [][AtPresentRule =>
          scores' = AddWhere(scores, PresentRows(GetColumn(df, rules[rule_idx].variable)),
                             rules[rule_idx].adjustment)]_vars

----------------------------------------------------------------------------
(* The column set of the prepared dataset *)

\* the declared categorical variables without an order
UnorderedCategoricals ==
    SelectSeq(config.categorical_variables,
              LAMBDA v : ~Details(config, v).has_order)

\* the names of the indicator columns generated from the raw table for the
\* given categorical variables
RECURSIVE IndicatorNames(_)
IndicatorNames(cats) ==
    IF cats = <<>> THEN <<>>
    ELSE LET dummies == GetDummies(cats[1], FillMissing(GetColumn(raw, cats[1]).vals))
         IN  [c \in 1..Len(dummies) |-> dummies[c].name] \o IndicatorNames(Tail(cats))

ColumnNames(frame) == [c \in 1..Len(frame) |-> frame[c].name]

\* C20: the columns of the dataset built by prepare_analysis_data are the
\* target, then the declared numerical variables once each in config order,
\* then the indicator columns generated from the declared unordered
\* categorical variables, and no other column of the raw table.
C20_ColumnSet ==
    prep_pc \in {"validate", "returned"} =>
        ColumnNames(df_prep) =
            <<config.target_variable>> \o config.numerical_variables
            \o IndicatorNames(UnorderedCategoricals)

----------------------------------------------------------------------------
(* The target step of the preparation *)

TargetRejected ==
    /\ prep_pc = "error"
    /\ prep_error \in {"Target variable must be binary",
                       "Target values must be binary (0/1)"}

\* the target step has run
TargetHandled ==
    \/ prep_pc \in {"select", "validate", "returned"}
    \/ prep_pc = "error" /\ prep_error # "Failed to process column"

\* the distinct non-missing values of the target of the raw table
ObservedTargetValues ==
    {v \in Unique(GetColumn(raw, config.target_variable).vals) : ~IsNA(v)}

NumericTarget == GetColumn(raw, config.target_variable).dtype # "object"

\* C21: target handling fails exactly when the target has more than two
\* distinct non-missing values or, for a numeric target, a value outside
\* {0, 1, missing}; a numeric target of 0, 1 and missing entries passes the
\* distinct-value check.
C21_TargetRejectedExactlyWhenNotBinary ==
    TargetHandled =>
        (TargetRejected <=>
            \/ Cardinality(ObservedTargetValues) > 2
            \/ NumericTarget /\ \E v \in ObservedTargetValues : v \notin {Zero, One})

----------------------------------------------------------------------------
(* apply_scoring_rules as a function of the dataset and the rule list *)

Returns(sc) == [error |-> "none", scores |-> sc]
Raises(type) == [error |-> type, scores |-> <<>>]

\* lines 125-149: the loop over the rules, from the scores built so far
RECURSIVE ApplyRules(_, _, _)
ApplyRules(frame, rs, sc) ==
    IF rs = <<>> THEN Returns(sc)
    ELSE IF ComparisonFails(frame, rs[1]) THEN Raises("TypeError")
    ELSE ApplyRules(frame, Tail(rs),
                    IF Applies(frame, rs[1])
                    THEN AddWhere(sc, Mask(frame, rs[1]), rs[1].adjustment)
                    ELSE sc)

\* lines 120-151
ApplyScoringRules(frame, rs) ==
    ApplyRules(frame, rs, [i \in 1..NumRows(frame) |-> BaseRule(rs).adjustment])

\* the orders of n items
Orders(n) ==
    {q \in [1..n -> 1..n] : \A i, j \in 1..n : i # j => q[i] # q[j]}

\* the rule lists that permute the non-base rules of rs and leave the rules
\* on BASE in place
NonBasePermutations(rs) ==
    {[i \in 1..Len(rs) |-> rs[q[i]]] :
        q \in {p \in Orders(Len(rs)) :
                  \A i \in 1..Len(rs) : rs[i].variable = BaseName => p[i] = i}}

\* C22: the scores apply_scoring_rules returns are those it returns for every
\* permutation of the non-base rules of the rule set (and when it raises, it
\* raises for every permutation).
C22_OrderIndependent ==
    /\ score_pc = "done" =>
          \A p \in NonBasePermutations(rules) :
             ApplyScoringRules(df, p) = Returns(scores)
    /\ score_pc = "TypeError" =>
          \A p \in NonBasePermutations(rules) :
             ApplyScoringRules(df, p) = Raises("TypeError")

\* two non-base rules with different adjustments matched the same row, and
\* the list has another order
C22_Witness ==
    /\ score_pc = "done"
    /\ Cardinality(NonBasePermutations(rules)) > 1
    /\ \E i \in 1..NumRows(df) :
          \E j, k \in Matching(df, rules, i) :
             /\ j < k
             /\ rules[j].adjustment > 0
             /\ rules[k].adjustment < 0
             /\ scores[i] = BaseRule(rules).adjustment
                            + rules[j].adjustment + rules[k].adjustment

----------------------------------------------------------------------------
(* Ordered categorical variables *)

\* the declared categorical variables with an order
OrderedCategoricals ==
    SelectSeq(config.categorical_variables,
              LAMBDA v : Details(config, v).has_order)

\* the categorical step has run
CategoricalsProcessed == prep_pc = "numerical"

\* the value of row i of the raw column, the sentinel when it is missing
Category(v, i) ==
    LET c == GetColumn(raw, v).vals[i]
    IN  IF IsNA(c) THEN MissingCategory ELSE c.s

\* C23: for a declared ordered categorical variable the transformer maps
\* each value (missing replaced by the sentinel category) to its 0-based
\* position in value_order, and every value not in value_order, the sentinel
\* included, to -1, without raising.
C23_OrderedRank ==
    CategoricalsProcessed =>
        \A v \in Elems(OrderedCategoricals) :
            LET order == Details(config, v).value_order
                encoded == GetColumn(df_prep, v).vals
            IN  /\ Len(encoded) = PrepRows
                /\ \A i \in 1..PrepRows :
                      \/ \E k \in 1..Len(order) :
                            order[k] = Category(v, i) /\ encoded[i] = Num(k - 1, 1)
                      \/ /\ Category(v, i) \notin Elems(order)
                         /\ encoded[i] = Num(-1, 1)

\* a ranked column with a first, a second and a missing category
C23_Witness ==
    /\ CategoricalsProcessed
    /\ RegionName \in Elems(OrderedCategoricals)
    /\ \E i, j, k \in 1..PrepRows :
          /\ GetColumn(df_prep, RegionName).vals[i] = Num(0, 1)
          /\ GetColumn(df_prep, RegionName).vals[j] = Num(1, 1)
          /\ IsNA(GetColumn(raw, RegionName).vals[k])
          /\ GetColumn(df_prep, RegionName).vals[k] = Num(-1, 1)

----------------------------------------------------------------------------
(* Unordered categorical variables *)

\* the distinct values of the raw column after the sentinel substitution
Categories(v) == {Category(v, i) : i \in 1..PrepRows}

\* the columns the categorical step appended to the raw table
Produced == SubSeq(df_prep, Len(raw) + 1, Len(df_prep))

\* the produced columns named with the prefix of variable v
IndicatorsOf(v) == SelectSeq(Produced, LAMBDA c : StartsWith(c.name, v \o <<"_">>))

\* C24: for a declared unordered categorical variable with k distinct values
\* after sentinel substitution the transformer produces exactly k indicator
\* columns named with the variable's name as prefix, every cell is 0 or 1,
\* and in every row exactly one of the k indicators equals 1.
C24_OneHot ==
    CategoricalsProcessed =>
        \A v \in Elems(UnorderedCategoricals) :
            LET ind == IndicatorsOf(v)
            IN  /\ Len(ind) = Cardinality(Categories(v))
                /\ \A c \in 1..Len(ind) : \A i \in 1..PrepRows :
                      ind[c].vals[i] \in {Zero, One}
                /\ \A i \in 1..PrepRows :
                      Cardinality({c \in 1..Len(ind) : ind[c].vals[i] = One}) = 1

\* three categories, one of them the sentinel, next to a raw column whose
\* name has the same prefix
C24_Witness ==
    /\ CategoricalsProcessed
    /\ RegionName \in Elems(UnorderedCategoricals)
    /\ Cardinality(Categories(RegionName)) = 3
    /\ MissingCategory \in Categories(RegionName)
    /\ Len(IndicatorsOf(RegionName)) = 3
    /\ HasColumn(raw, RegionCodeName)

----------------------------------------------------------------------------
(* Ordered categorical variables in the returned dataset *)

\* C28: a categorical variable declared ordered contributes no column to the
\* dataset prepare_analysis_data returns: the dataset has no column of its
\* name, and a column named with its prefix is a column of the raw table.
C28_OrderedContributesNothing ==
    prep_pc \in {"validate", "returned"} =>
        \A v \in Elems(OrderedCategoricals) :
            \A c \in 1..Len(df_prep) :
                /\ df_prep[c].name # v
                /\ StartsWith(df_prep[c].name, v \o <<"_">>) =>
                      HasColumn(raw, df_prep[c].name)

\* a dataset is returned for a configuration with an ordered variable whose
\* raw column has two ranked values
C28_Witness ==
    /\ Returned
    /\ RegionName \in Elems(OrderedCategoricals)
    /\ Cardinality(Categories(RegionName)) >= 2
    /\ Len(df_prep) >= 2

----------------------------------------------------------------------------
(* The end of a run: the COMPLETED status, the artifacts, the job records *)

\* a commit of the run made the COMPLETED status durable
CompletedCommitted ==
    \E i \in 1..Len(commitLog) : "JOBS:COMPLETED" \in commitLog[i]

\* C25: once a run has committed the status COMPLETED, the job's status is
\* never afterwards set to FAILED by that run and the run returns
\* success: true, also when the final progress callback or the assembly of
\* the result raises.
C25_CompletedIsFinal ==
    CompletedCommitted =>
        /\ \A i \in 1..Len(committed.jobs) : committed.jobs[i].status # "FAILED"
        /\ pc = "done" => Succeeded

\* the numbers of rows a complete artifact of the run can have
CompleteCounts(t) ==
    CASE t = "MODEL_DETAILS" -> {1}
      [] t = "FEATURE_IMPORTANCE" -> {inp.nfeat}
      [] t = "SCORING_RULES" -> 1..(1 + 2 * inp.nfeat)
      [] t = "MODEL_METRICS" -> {1}
      [] t = "RESPONSE_RATES" -> {NumDeciles}
      [] t = "SCORED_RECORDS" -> {inp.count}

\* C26: when a persistence step fails partway through writing an artifact,
\* none of that artifact's rows end up committed: after the run returns the
\* store holds each artifact of the job completely or not at all.
C26_ArtifactsAllOrNothing ==
    pc = "done" =>
        \A t \in ArtifactSet :
            committed.rows[t] = 0 \/ committed.rows[t] \in CompleteCounts(t)

\* the records of the job table with the run's job id
JobRecords(store) == {i \in 1..Len(store.jobs) : store.jobs[i].job_id = JobId}

\* C27: across the upload step and the analysis step of the same upload the
\* job table holds at most one record for the job id at every point.
C27_SingleJobRecord ==
    inp.uploaded =>
        /\ Cardinality(JobRecords(txn)) <= 1
        /\ Cardinality(JobRecords(committed)) <= 1

----------------------------------------------------------------------------
(* validate_data (validation.py:6-173), called by the upload page on a     *)
(* fresh connection (1_upload.py:110-119).  The warehouse record holds,     *)
(* for this upload, the rows pending in the open transaction and the rows  *)
(* committed: raw rows, data-quality records, UPLOADED job records.         *)

UploadRowCounts ==
    {MinUploadRows - 1, MinUploadRows, BatchSize, BatchSize + 1,
     (MaxBatches - 1) * BatchSize + 1}

UploadInputs ==
    [rows         : UploadRowCounts,      \* len(df)
     columns      : {MinUploadColumns - 1, MinUploadColumns},  \* len(df.columns)
     empty_cols   : BOOLEAN,              \* a column is entirely null
     progress_bar : BOOLEAN]              \* a progress bar was passed

\* can `if progress_bar: progress_bar.progress(p)` return normally / raise
BarOutcomes == IF upload_in.progress_bar THEN {"ok", "raises"} ELSE {"ok"}

UploadFailure(message) == [success |-> FALSE, error |-> message]

\* an exception raised inside the inner try reaches line 162
RaiseInner(stage) == /\ upload_exc' = stage
                     /\ upload_pc' = "rollback"

\* an exception raised outside the inner try reaches line 169
RaiseOuter(stage) == /\ upload_exc' = stage
                     /\ upload_pc' = "except"

\* lines 12-31: progress 0 and 10, minimum rows, minimum columns
StructuralChecks ==
    /\ upload_pc = "start"
    /\ \E bar \in BarOutcomes :
         IF bar = "raises"
         THEN RaiseOuter("progress") /\ upload_result' = upload_result
         ELSE IF upload_in.rows < MinUploadRows
         THEN /\ upload_result' = UploadFailure("Dataset too small")
              /\ upload_pc' = "done"
              /\ upload_exc' = upload_exc
         ELSE IF upload_in.columns < MinUploadColumns
         THEN /\ upload_result' = UploadFailure("Not enough variables")
              /\ upload_pc' = "done"
              /\ upload_exc' = upload_exc
         ELSE /\ upload_pc' = "quality"
              /\ UNCHANGED <<upload_exc, upload_result>>
    /\ UNCHANGED <<upload_in, warehouse, conn_calls>>

\* lines 34-46: progress 30, completely empty columns
QualityChecks ==
    /\ upload_pc = "quality"
    /\ \E bar \in BarOutcomes :
         IF bar = "raises"
         THEN RaiseOuter("progress") /\ upload_result' = upload_result
         ELSE IF upload_in.empty_cols
         THEN /\ upload_result' = UploadFailure("Found completely empty columns")
              /\ upload_pc' = "done"
              /\ upload_exc' = upload_exc
         ELSE /\ upload_pc' = "name"
              /\ UNCHANGED <<upload_exc, upload_result>>
    /\ UNCHANGED <<upload_in, warehouse, conn_calls>>

\* lines 49-56: progress 50, table_name, progress 70
CreateTableName ==
    /\ upload_pc = "name"
    /\ \E bar \in BarOutcomes :
         IF bar = "raises" THEN RaiseOuter("progress")
         ELSE upload_pc' = "cursor" /\ upload_exc' = upload_exc
    /\ UNCHANGED <<upload_in, warehouse, conn_calls, upload_result>>

\* lines 60-66: conn.cursor(), USE DATABASE, CREATE SCHEMA IF NOT EXISTS
OpenUploadCursor ==
    /\ upload_pc = "cursor"
    /\ \E ok \in BOOLEAN :
         IF ok THEN upload_pc' = "create" /\ upload_exc' = upload_exc
         ELSE RaiseInner("cursor")
    /\ UNCHANGED <<upload_in, warehouse, conn_calls, upload_result>>

\* lines 69-76: CREATE OR REPLACE TABLE, a DDL statement: it takes effect at
\* once and is not undone by a rollback
CreateTable ==
    /\ upload_pc = "create"
    /\ \E ok \in BOOLEAN :
         IF ok THEN /\ warehouse' = [warehouse EXCEPT !.table = TRUE,
                                                      !.pending.raw = 0,
                                                      !.committed.raw = 0]
                    /\ upload_pc' = "insert"
                    /\ upload_exc' = upload_exc
         ELSE /\ RaiseInner("create")
              /\ warehouse' = warehouse
    /\ UNCHANGED <<upload_in, conn_calls, upload_result>>

\* range(0, len(rows), batch_size)
NumBatches(n) == (n + BatchSize - 1) \div BatchSize

\* the rows of the first k batches
RowsOfBatches(n, k) == IF k * BatchSize > n THEN n ELSE k * BatchSize

\* lines 79-93: progress 80, one INSERT per batch of 1000 rows; k is the
\* number of batches inserted when the loop ends or raises
InsertData ==
    /\ upload_pc = "insert"
    /\ \E bar \in BarOutcomes :
         IF bar = "raises"
         THEN RaiseInner("progress") /\ warehouse' = warehouse
         ELSE \E k \in 0..NumBatches(upload_in.rows) :
                /\ warehouse' = [warehouse EXCEPT
                                    !.pending.raw = @ + RowsOfBatches(upload_in.rows, k)]
                /\ IF k = NumBatches(upload_in.rows)
                   THEN upload_pc' = "metrics" /\ upload_exc' = upload_exc
                   ELSE RaiseInner("insert")
    /\ UNCHANGED <<upload_in, conn_calls, upload_result>>

\* lines 96-141: progress 90, INSERT INTO METADATA.DATA_QUALITY
SaveQualityMetrics ==
    /\ upload_pc = "metrics"
    /\ \E outcome \in BarOutcomes \cup {"execute_failed"} :
         CASE outcome = "ok" ->
                /\ warehouse' = [warehouse EXCEPT !.pending.quality = @ + 1]
                /\ upload_pc' = "job"
                /\ upload_exc' = upload_exc
           [] outcome = "raises" ->
                RaiseInner("progress") /\ warehouse' = warehouse
           [] outcome = "execute_failed" ->
                RaiseInner("metrics") /\ warehouse' = warehouse
    /\ UNCHANGED <<upload_in, conn_calls, upload_result>>

\* mutant: the job record is committed by its own statement (autocommit)
CreateJobRecordAutocommit ==
    /\ upload_pc = "job"
    /\ \E ok \in BOOLEAN :
         IF ok THEN /\ warehouse' = [warehouse EXCEPT
                                        !.pending.uploaded = @ + 1,
                                        !.committed = [warehouse.pending EXCEPT
                                                          !.uploaded = @ + 1]]
                    /\ upload_pc' = "commit"
                    /\ upload_exc' = upload_exc
         ELSE /\ RaiseInner("job")
              /\ warehouse' = warehouse
    /\ UNCHANGED <<upload_in, conn_calls, upload_result>>

\* lines 143-150: INSERT INTO METADATA.JOBS ... 'UPLOADED'
CreateJobRecord ==
    /\ upload_pc = "job"
    /\ \E ok \in BOOLEAN :
         IF ok THEN /\ warehouse' = [warehouse EXCEPT !.pending.uploaded = @ + 1]
                    /\ upload_pc' = "commit"
                    /\ upload_exc' = upload_exc
         ELSE /\ RaiseInner("job")
              /\ warehouse' = warehouse
    /\ UNCHANGED <<upload_in, conn_calls, upload_result>>

\* line 152: conn.commit()
CommitUpload ==
    /\ upload_pc = "commit"
    /\ \E ok \in BOOLEAN :
         IF ok THEN /\ warehouse' = [warehouse EXCEPT !.committed = warehouse.pending]
                    /\ conn_calls' = Append(conn_calls, "commit")
                    /\ upload_pc' = "p100"
                    /\ upload_exc' = upload_exc
         ELSE /\ RaiseInner("commit")
              /\ conn_calls' = Append(conn_calls, "commit_failed")
              /\ warehouse' = warehouse
    /\ UNCHANGED <<upload_in, upload_result>>

\* lines 154-160: progress 100, the success result
ReturnUploaded ==
    /\ upload_pc = "p100"
    /\ \E bar \in BarOutcomes :
         IF bar = "raises"
         THEN RaiseInner("progress") /\ upload_result' = upload_result
         ELSE /\ upload_result' = [success |-> TRUE, error |-> "none"]
              /\ upload_pc' = "done"
              /\ upload_exc' = upload_exc
    /\ UNCHANGED <<upload_in, warehouse, conn_calls>>

\* lines 162-167: conn.rollback(), the failure result; a rollback that raises
\* leaves the handler for the outer one
RollbackUpload ==
    /\ upload_pc = "rollback"
    /\ \E ok \in BOOLEAN :
         IF ok THEN /\ warehouse' = [warehouse EXCEPT !.pending = warehouse.committed]
                    /\ conn_calls' = Append(conn_calls, "rollback")
                    /\ upload_result' = UploadFailure("Database error")
                    /\ upload_pc' = "done"
         ELSE /\ conn_calls' = Append(conn_calls, "rollback_failed")
              /\ upload_pc' = "except"
              /\ UNCHANGED <<warehouse, upload_result>>
    /\ UNCHANGED <<upload_in, upload_exc>>

\* lines 169-173: the outer handler
ValidationFailure ==
    /\ upload_pc = "except"
    /\ upload_result' = UploadFailure("Validation error")
    /\ upload_pc' = "done"
    /\ UNCHANGED <<upload_in, warehouse, conn_calls, upload_exc>>

UploadInit ==
    /\ RunIdle
    /\ ScoreIdle
    /\ PrepIdle
    /\ DecIdle
    /\ JobsIdle
    /\ GenIdle
    /\ RetryIdle
    /\ upload_pc = "start"
    /\ upload_in \in UploadInputs
    /\ warehouse = [table |-> FALSE, pending |-> NoRows, committed |-> NoRows]
    /\ conn_calls = <<>>
    /\ upload_exc = "none"
    /\ upload_result = NoUpload

UploadNext ==
    \/ StructuralChecks \/ QualityChecks \/ CreateTableName \/ OpenUploadCursor
    \/ CreateTable \/ InsertData \/ SaveQualityMetrics \/ CreateJobRecord
    \/ CommitUpload \/ ReturnUploaded \/ RollbackUpload \/ ValidationFailure

SpecUpload == UploadInit /\ [][UploadNext /\ UNCHANGED <<runVars, scoreVars, prepVars, decVars, jobVars, genVars, retryVars>>]_vars

(* Claims about validate_data, checked under SpecUpload *)

\* the statements and calls of lines 60-152 that reach the warehouse
DatabaseStages == {"cursor", "create", "insert", "metrics", "job", "commit"}

Uploaded == upload_result.success

UploadReturned == upload_pc = "done"

RolledBack ==
    \E i \in 1..Len(conn_calls) : conn_calls[i] \in {"rollback", "rollback_failed"}

\* C29: validate_data returns success: true only if the raw rows, the
\* data-quality record and the UPLOADED job record were all written and
\* committed; on a database error it calls rollback and returns a failure
\* result, and no UPLOADED job record of the upload is committed.
C29_UploadAtomic ==
    /\ Uploaded =>
          /\ warehouse.table
          /\ warehouse.committed = [raw |-> upload_in.rows, quality |-> 1, uploaded |-> 1]
    /\ upload_exc \in DatabaseStages =>
          /\ warehouse.committed.uploaded = 0
          /\ UploadReturned =>
                /\ RolledBack
                /\ upload_result # NoUpload
                /\ ~Uploaded

\* the commit of an upload of several batches failed after the job record
\* was written, and the rollback undid the pending rows
C29_Witness ==
    /\ UploadReturned
    /\ upload_exc = "commit"
    /\ upload_in.rows > BatchSize
    /\ conn_calls = <<"commit_failed", "rollback">>
    /\ warehouse.table
    /\ warehouse.pending = NoRows
    /\ upload_result = UploadFailure("Database error")

----------------------------------------------------------------------------
(* execute_with_retry (snowflake_utils.py:24-51).  Every call on the       *)
(* connection or the cursor may raise an OperationalError or an exception  *)
(* of another type ("Error"); cursor.close() is local and does not raise.   *)

Exceptions == {"OperationalError", "Error"}
Outcomes == {"none"} \cup Exceptions

RetryInputs ==
    [max_retries : 0..MaxRetries,   \* the argument max_retries
     params_list : BOOLEAN]         \* isinstance(params, list)

\* a call made by the function, with the exception it raised
Called(call, out) ==
    retry_calls' = Append(retry_calls, [call |-> call, attempt |-> attempt,
                                        conn |-> conn, raised |-> out])

\* line 31: for attempt in range(max_retries); line 51: return None
NextAttempt ==
    /\ retry_pc = "loop"
    /\ IF attempt < retry_in.max_retries
       THEN retry_pc' = "cursor" /\ retry_result' = retry_result
       ELSE retry_pc' = "done" /\ retry_result' = "None"
    /\ UNCHANGED <<retry_in, attempt, conn, retry_cursor, retry_exc, retry_calls>>

\* line 33: cursor = conn.cursor(), outside the inner try
CreateCursor ==
    /\ retry_pc = "cursor"
    /\ \E out \in Outcomes :
         /\ Called("cursor", out)
         /\ IF out = "none"
            THEN /\ retry_cursor' = "open"
                 /\ retry_pc' = "execute"
                 /\ retry_exc' = retry_exc
            ELSE /\ retry_exc' = out
                 /\ retry_pc' = "except"
                 /\ retry_cursor' = retry_cursor
    /\ UNCHANGED <<retry_in, attempt, conn, retry_result>>

\* lines 35-38: cursor.executemany(sql, params) or cursor.execute(sql, params)
ExecuteOperation ==
    /\ retry_pc = "execute"
    /\ \E out \in Outcomes :
         /\ Called(IF retry_in.params_list THEN "executemany" ELSE "execute", out)
         /\ IF out = "none" THEN retry_pc' = "commit" /\ retry_exc' = retry_exc
            ELSE retry_pc' = "rollback" /\ retry_exc' = out
    /\ UNCHANGED <<retry_in, attempt, conn, retry_cursor, retry_result>>

\* lines 39-40: conn.commit(); return cursor (the finally clause runs first)
CommitOperation ==
    /\ retry_pc = "commit"
    /\ \E out \in Outcomes :
         /\ Called("commit", out)
         /\ IF out = "none" THEN retry_pc' = "finally" /\ retry_exc' = retry_exc
            ELSE retry_pc' = "rollback" /\ retry_exc' = out
    /\ UNCHANGED <<retry_in, attempt, conn, retry_cursor, retry_result>>

\* lines 41-43: conn.rollback(); raise.  An exception of the rollback
\* replaces the one being handled.
RollbackOperation ==
    /\ retry_pc = "rollback"
    /\ \E out \in Outcomes :
         /\ Called("rollback", out)
         /\ retry_exc' = IF out = "none" THEN retry_exc ELSE out
    /\ retry_pc' = "finally"
    /\ UNCHANGED <<retry_in, attempt, conn, retry_cursor, retry_result>>

\* lines 44-45: finally: cursor.close(); then the return of line 40 or the
\* exception in flight goes on
CloseCursor ==
    /\ retry_pc = "finally"
    /\ Called("close", "none")
    /\ retry_cursor' = "closed"
    /\ IF retry_exc = "none"
       THEN retry_pc' = "done" /\ retry_result' = "cursor"
       ELSE retry_pc' = "except" /\ retry_result' = retry_result
    /\ UNCHANGED <<retry_in, attempt, conn, retry_exc>>

\* mutant: the error of the last attempt is not re-raised
HandleOperationalErrorSwallowed ==
    /\ retry_pc = "except"
    /\ IF retry_exc # "OperationalError"
       THEN /\ retry_result' = retry_exc
            /\ retry_pc' = "done"
            /\ UNCHANGED <<attempt, conn, retry_exc, retry_calls>>
       ELSE \E out \in Outcomes :
              /\ Called("init_connection", out)
              /\ IF out = "none"
                 THEN /\ conn' = conn + 1
                      /\ attempt' = attempt + 1
                      /\ retry_exc' = "none"
                      /\ retry_pc' = "loop"
                      /\ retry_result' = retry_result
                 ELSE /\ retry_exc' = out
                      /\ retry_result' = out
                      /\ retry_pc' = "done"
                      /\ UNCHANGED <<attempt, conn>>
    /\ UNCHANGED <<retry_in, retry_cursor>>

\* lines 46-50: except OperationalError: re-raise on the last attempt, else
\* conn = init_connection() and the loop goes on; an exception of another
\* type is not caught and leaves the function
HandleOperationalError ==
    /\ retry_pc = "except"
    /\ IF retry_exc # "OperationalError" \/ attempt = retry_in.max_retries - 1
       THEN /\ retry_result' = retry_exc
            /\ retry_pc' = "done"
            /\ UNCHANGED <<attempt, conn, retry_exc, retry_calls>>
       ELSE \E out \in Outcomes :
              /\ Called("init_connection", out)
              /\ IF out = "none"
                 THEN /\ conn' = conn + 1
                      /\ attempt' = attempt + 1
                      /\ retry_exc' = "none"
                      /\ retry_pc' = "loop"
                      /\ retry_result' = retry_result
                 ELSE /\ retry_exc' = out
                      /\ retry_result' = out
                      /\ retry_pc' = "done"
                      /\ UNCHANGED <<attempt, conn>>
    /\ UNCHANGED <<retry_in, retry_cursor>>

RetryInit ==
    /\ RunIdle
    /\ ScoreIdle
    /\ PrepIdle
    /\ DecIdle
    /\ JobsIdle
    /\ GenIdle
    /\ UploadIdle
    /\ retry_pc = "loop"
    /\ retry_in \in RetryInputs
    /\ attempt = 0
    /\ conn = 0
    /\ retry_cursor = "None"
    /\ retry_exc = "none"
    /\ retry_calls = <<>>
    /\ retry_result = "none"

RetryNext ==
    \/ NextAttempt \/ CreateCursor \/ ExecuteOperation \/ CommitOperation
    \/ RollbackOperation \/ CloseCursor \/ HandleOperationalError

SpecRetry == RetryInit /\ [][RetryNext /\ UNCHANGED <<runVars, scoreVars, prepVars, decVars, jobVars, genVars, uploadVars>>]_vars

(* Claims about execute_with_retry, checked under SpecRetry *)

Calls == 1..Len(retry_calls)

OperationCalls == {"execute", "executemany"}

\* the calls that ran the operation
Executions == {i \in Calls : retry_calls[i].call \in OperationCalls}

RaisedIn(i, calls, type) ==
    retry_calls[i].call \in calls /\ retry_calls[i].raised = type

\* a rollback was called later in the attempt of call i
RollbackAfter(i) ==
    \E j \in Calls : /\ j > i
                     /\ retry_calls[j].call = "rollback"
                     /\ retry_calls[j].attempt = retry_calls[i].attempt

\* a rollback that did not raise was called later in the attempt of call i
CleanRollbackAfter(i) ==
    \E j \in Calls : /\ j > i
                     /\ RaisedIn(j, {"rollback"}, "none")
                     /\ retry_calls[j].attempt = retry_calls[i].attempt

\* a later attempt followed the attempt of call i
RetriedAfter(i) ==
    \E j \in Calls : retry_calls[j].attempt > retry_calls[i].attempt

\* the last exception raised before call i
LastRaisedBefore(i) ==
    LET raisers == {j \in 1..(i - 1) : retry_calls[j].raised # "none"}
    IN  IF raisers = {} THEN "none"
        ELSE retry_calls[CHOOSE j \in raisers : \A k \in raisers : k <= j].raised

\* a later call of the attempt of call i raised
RaisedLater(i) ==
    \E j \in Calls : /\ j > i
                     /\ retry_calls[j].raised # "none"
                     /\ retry_calls[j].attempt = retry_calls[i].attempt

RetryEnded == retry_pc = "done"

\* at most max_retries runs of the operation
AtMostMaxRetries == Cardinality(Executions) <= retry_in.max_retries

\* a new connection is made only after an OperationalError, and every
\* attempt after the first uses a connection of its own
RetryOnlyAfterOperationalError ==
    /\ \A i \in Calls :
          retry_calls[i].call = "init_connection" =>
              LastRaisedBefore(i) = "OperationalError"
    /\ \A i \in Calls : retry_calls[i].call # "init_connection" =>
                            retry_calls[i].conn = retry_calls[i].attempt

\* no cursor is open between attempts or after the call
CursorClosed ==
    retry_pc \in {"loop", "cursor", "done"} => retry_cursor # "open"

AttemptCalls == {"cursor"} \cup OperationCalls \cup {"commit"}

\* C30 as stated: at most max_retries runs; a retry, on a fresh connection,
\* only after an OperationalError; any other exception is propagated after a
\* rollback without a retry; the OperationalError of the last allowed
\* attempt is re-raised; every attempt's cursor is closed before the next
\* attempt or the return.
C30_RetryContract ==
    /\ AtMostMaxRetries
    /\ RetryOnlyAfterOperationalError
    /\ CursorClosed
    /\ RetryEnded =>
          \A i \in Calls :
             /\ RaisedIn(i, AttemptCalls, "Error") =>
                   /\ RollbackAfter(i)
                   /\ ~RetriedAfter(i)
                   /\ retry_result = "Error"
             /\ (RaisedIn(i, AttemptCalls, "OperationalError")
                 /\ retry_calls[i].attempt = retry_in.max_retries - 1) =>
                   retry_result = "OperationalError"

\* C30 amended: at most max_retries runs; a retry, on a fresh connection,
\* only when the attempt ended with an OperationalError (of the cursor
\* creation, the operation, the commit or the rollback); an exception of
\* another type raised by the operation or the commit is followed by a
\* rollback and, when the rollback does not raise, propagated without a
\* retry; one raised by the cursor creation is propagated with neither
\* rollback nor retry; an OperationalError that ends the last allowed attempt
\* is re-raised; every cursor created is closed before the next attempt or
\* the return, also the cursor that is returned.
C30_RetryContractAmended ==
    /\ AtMostMaxRetries
    /\ RetryOnlyAfterOperationalError
    /\ CursorClosed
    /\ RetryEnded =>
          /\ \A i \in Calls :
                /\ RaisedIn(i, OperationCalls \cup {"commit"}, "Error") =>
                      /\ RollbackAfter(i)
                      /\ CleanRollbackAfter(i) =>
                            ~RetriedAfter(i) /\ retry_result = "Error"
                /\ RaisedIn(i, {"cursor"}, "Error") =>
                      /\ ~RollbackAfter(i)
                      /\ ~RetriedAfter(i)
                      /\ retry_result = "Error"
          /\ \A i \in Calls :
                (/\ retry_calls[i].raised = "OperationalError"
                 /\ retry_calls[i].attempt = retry_in.max_retries - 1
                 /\ ~RaisedLater(i)) =>
                    retry_result = "OperationalError"
          /\ retry_result = "cursor" => retry_cursor = "closed"

\* three attempts on three connections, each ended by an OperationalError,
\* the last one re-raised
C30_Witness ==
    /\ RetryEnded
    /\ retry_in.max_retries = 3
    /\ Cardinality(Executions) = 3
    /\ conn = 2
    /\ retry_cursor = "closed"
    /\ retry_result = "OperationalError"

====
